---- MODULE Spec2Model ----
(***************************************************************************)
(* A model of FigmaParser (src/include/figmaparser.h): the public entry    *)
(* points components(), element(), component(), validFileName() and the    *)
(* private helpers they run (getObjectsByType, delta, parse, ...).         *)
(*                                                                         *)
(* FigmaParser keeps no state between calls of its static entry points, so *)
(* the state of the model is one pending call with its arguments, the      *)
(* value the call returned, and the invocations of the caller-supplied     *)
(* callbacks (reportIssue, resolveRemoteNode, provideImage) it made.       *)
(*                                                                         *)
(* QString     : a sequence of one-character strings                       *)
(* QJsonObject : a function from its keys (strings) to values              *)
(* QJsonArray  : a sequence                                                *)
(***************************************************************************)
EXTENDS Integers, Sequences, FiniteSets, TLC

VARIABLES
    call,    \* the entry point invoked and its arguments
    ret,     \* what the entry point returned (NoRet before it has run)
    errs,    \* the invocations of the ErrorFunc callback, in order
    cbLog,   \* the invocations of the NodeFunc / ImageFunc callbacks, in order
    parsed,  \* the invocations of parse, in order: the node, the m_parent slot, the branch taken
    lookups, \* the dereferences (*m_components)[id] of the catalogue: the id and the function
    traversals, \* the returns of parseChildrenItems: the node, m_parent before the call and after it
    pc       \* "call" before the entry point has run, "done" after

vars == <<call, ret, errs, cbLog, parsed, lookups, traversals, pc>>

NoRet == [none |-> TRUE]

(***************************************************************************)
(* Bounds of the model.                                                    *)
(***************************************************************************)
MaxNameLen == 2

(***************************************************************************)
(* Strings.                                                                *)
(***************************************************************************)
LowerSeq == <<"a","b","c","d","e","f","g","h","i","j","k","l","m",
              "n","o","p","q","r","s","t","u","v","w","x","y","z">>
UpperSeq == <<"A","B","C","D","E","F","G","H","I","J","K","L","M",
              "N","O","P","Q","R","S","T","U","V","W","X","Y","Z">>
DigitSeq == <<"0","1","2","3","4","5","6","7","8","9">>

Range(s) == {s[i] : i \in DOMAIN s}

IsLower(c) == c \in Range(LowerSeq)
IsUpper(c) == c \in Range(UpperSeq)
IsLetter(c) == IsLower(c) \/ IsUpper(c)
IsDigit(c) == c \in Range(DigitSeq)

\* QChar::toUpper, on the characters of the model's alphabet
ToUpper(c) ==
    IF IsLower(c)
    THEN UpperSeq[CHOOSE i \in DOMAIN LowerSeq : LowerSeq[i] = c]
    ELSE c

\* QString::endsWith
EndsWith(s, suffix) ==
    /\ Len(s) >= Len(suffix)
    /\ SubSeq(s, Len(s) - Len(suffix) + 1, Len(s)) = suffix


RECURSIVE Digits(_)
\* QString::arg(int): the decimal digits of n >= 0
Digits(n) ==
    IF n < 10 THEN <<DigitSeq[n + 1]>>
    ELSE Digits(n \div 10) \o <<DigitSeq[(n % 10) + 1]>>

FIGMA_SUFFIX == <<"_","f","i","g","m","a">>

\* the class [\\\/:*?"<>|\s] of the first replace
IsReservedChar(c) == c \in {"\\", "/", ":", "*", "?", "\"", "<", ">", "|", " ", "\t", "\n"}
\* the class [^a-zA-Z0-9_] of the second replace
IsNonWordChar(c) == ~(IsLetter(c) \/ IsDigit(c) \/ c = "_")

\* name.replace(re, "_") with the first class
ReplaceReserved(s) == [i \in DOMAIN s |-> IF IsReservedChar(s[i]) THEN "_" ELSE s[i]]
\* name.replace(QRegularExpression(...), "_") with the second class
ReplaceNonWord(s) == [i \in DOMAIN s |-> IF IsNonWordChar(s[i]) THEN "_" ELSE s[i]]

\* validFileName without the step that prepends "C" to a name not starting with a letter
validFileName_NoPrefix(itemName) ==
    IF itemName = <<>> THEN <<>>
    ELSE LET name1 == ReplaceReserved(itemName \o FIGMA_SUFFIX)
             name2 == ReplaceNonWord(name1)
         IN  <<ToUpper(name2[1])>> \o Tail(name2)

validFileName(itemName) ==
    IF itemName = <<>> THEN <<>>
    ELSE LET name1 == ReplaceReserved(itemName \o FIGMA_SUFFIX)
             name2 == ReplaceNonWord(name1)
             name3 == IF ~IsLetter(name2[1]) THEN <<"C">> \o name2 ELSE name2
         IN  <<ToUpper(name3[1])>> \o Tail(name3)

(***************************************************************************)
(* Specification SpecName: validFileName applied to a raw name.            *)
(***************************************************************************)
\* letters of both cases, a digit, an underscore, characters of the first
\* replace's class, and characters only the second replace catches
NameChars == {"a", "B", "7", "_", " ", "/", "-", "$"}

RECURSIVE StringsUpTo(_, _)
StringsUpTo(chars, n) ==
    IF n = 0 THEN {<<>>}
    ELSE LET shorter == StringsUpTo(chars, n - 1)
         IN  shorter \cup {<<c>> \o s : c \in chars, s \in {t \in shorter : Len(t) = n - 1}}

RawNames == StringsUpTo(NameChars, MaxNameLen)

InitName ==
    /\ call \in {[fn |-> "validFileName", itemName |-> n] : n \in RawNames}
    /\ ret = NoRet
    /\ errs = <<>>
    /\ cbLog = <<>>
    /\ parsed = <<>>
    /\ lookups = {}
    /\ traversals = {}
    /\ pc = "call"

ValidFileName ==
    /\ pc = "call"
    /\ call.fn = "validFileName"
    /\ ret' = validFileName(call.itemName)
    /\ pc' = "done"
    /\ UNCHANGED <<call, errs, cbLog, parsed, lookups, traversals>>

NextName == ValidFileName

SpecName == InitName /\ [][NextName]_vars

IsWordChar(c) == IsLetter(c) \/ IsDigit(c) \/ c = "_"

MaxVal == 2

JNull == [type |-> "Null"]
JUndefined == [type |-> "Undefined"]
JValue(v) == [type |-> "Value", v |-> v]

\* QJsonObject::insert(key, value), value a QJsonValue
JsonInsert(o, k, jv) ==
    IF jv.type = "Undefined"
    THEN [x \in DOMAIN o \ {k} |-> o[x]]
    ELSE [x \in DOMAIN o \cup {k} |-> IF x = k THEN (IF jv.type = "Null" THEN JNull ELSE jv.v) ELSE o[x]]

EmptyObject == [x \in {} |-> 0]

\* the comparators of the model: each is a function of (base value, instance value)
\*   "null"      always QJsonValue()
\*   "instance"  the instance's value
\*   "base"      the base's value
\*   "ifDiffer"  o == c ? QJsonValue() : c, the shape of the comparator of line 1761
\*   "undefined" QJsonValue(QJsonValue::Undefined)
Comparators == {"null", "instance", "base", "ifDiffer", "undefined"}

CompareApply(cmp, o, c) ==
    CASE cmp = "null" -> JNull
      [] cmp = "instance" -> JValue(c)
      [] cmp = "base" -> JValue(o)
      [] cmp = "ifDiffer" -> IF o = c THEN JNull ELSE JValue(c)
      [] cmp = "undefined" -> JUndefined

\* one pass of delta's loop body for key k
DeltaStep(newObject, k, instance, base, ignored, compares) ==
    IF k \in ignored THEN newObject
    ELSE IF k \notin DOMAIN base THEN JsonInsert(newObject, k, JValue(instance[k]))
    ELSE IF k \in DOMAIN compares
         THEN LET r == CompareApply(compares[k], base[k], instance[k])
              IN  IF r.type # "Null" THEN JsonInsert(newObject, k, r) ELSE newObject
    ELSE IF base[k] # instance[k] THEN JsonInsert(newObject, k, JValue(instance[k]))
    ELSE newObject

RECURSIVE DeltaLoop(_, _, _, _, _, _)
\* for(const auto& k : instance.keys()) over the keys not yet visited
DeltaLoop(newObject, todo, instance, base, ignored, compares) ==
    IF todo = {} THEN newObject
    ELSE LET k == CHOOSE x \in todo : TRUE
         IN  DeltaLoop(DeltaStep(newObject, k, instance, base, ignored, compares),
                       todo \ {k}, instance, base, ignored, compares)

\* delta putting name back whether or not it is ignored
delta_NameAlways(instance, base, ignored, compares) ==
    LET newObject == DeltaLoop(EmptyObject, DOMAIN instance, instance, base, ignored, compares)
    IN  IF DOMAIN newObject # {} /\ "name" \in DOMAIN instance
        THEN JsonInsert(newObject, "name", JValue(instance["name"]))
        ELSE newObject

\* delta putting name back even into an empty result
delta_NameEvenIfEmpty(instance, base, ignored, compares) ==
    LET newObject == DeltaLoop(EmptyObject, DOMAIN instance, instance, base, ignored, compares)
    IN  IF "name" \notin ignored /\ "name" \in DOMAIN instance
        THEN JsonInsert(newObject, "name", JValue(instance["name"]))
        ELSE newObject

\* delta never putting name back
delta_NoNameBack(instance, base, ignored, compares) ==
    DeltaLoop(EmptyObject, DOMAIN instance, instance, base, ignored, compares)

delta(instance, base, ignored, compares) ==
    LET newObject == DeltaLoop(EmptyObject, DOMAIN instance, instance, base, ignored, compares)
    IN  IF DOMAIN newObject # {}
        THEN IF "name" \notin ignored /\ "name" \in DOMAIN instance
             THEN JsonInsert(newObject, "name", JValue(instance["name"]))
             ELSE newObject
        ELSE newObject

(***************************************************************************)
(* Specification SpecDelta: delta applied to an instance object, a base    *)
(* object, a set of ignored keys and a table of comparators.               *)
(***************************************************************************)
DeltaKeys == {"name", "size"}

DeltaObjects == UNION {[ks -> 1..MaxVal] : ks \in SUBSET DeltaKeys}

CompareTables == UNION {[ks -> Comparators] : ks \in SUBSET DeltaKeys}

InitDelta ==
    /\ call \in {[fn |-> "delta", instance |-> i, base |-> b, ignored |-> g, compares |-> c] :
                    i \in DeltaObjects, b \in DeltaObjects,
                    g \in SUBSET DeltaKeys, c \in CompareTables}
    /\ ret = NoRet
    /\ errs = <<>>
    /\ cbLog = <<>>
    /\ parsed = <<>>
    /\ lookups = {}
    /\ traversals = {}
    /\ pc = "call"

Delta ==
    /\ pc = "call"
    /\ call.fn = "delta"
    /\ ret' = delta(call.instance, call.base, call.ignored, call.compares)
    /\ pc' = "done"
    /\ UNCHANGED <<call, errs, cbLog, parsed, lookups, traversals>>

NextDelta == Delta

SpecDelta == InitDelta /\ [][NextDelta]_vars

DeltaDone == pc = "done" /\ call.fn = "delta"

\* C7: delta(X, X, {}, {}) is the empty object for every object X, also when X
\* has a name key.
C7_DeltaSelfEmpty ==
    (DeltaDone /\ call.instance = call.base /\ call.ignored = {} /\ DOMAIN call.compares = {})
        => DOMAIN ret = {}

\* an object with a name and another key was compared with itself
C7_Witness ==
    /\ DeltaDone
    /\ call.instance = call.base
    /\ DOMAIN call.instance = {"name", "size"}
    /\ call.ignored = {}
    /\ DOMAIN call.compares = {}
    /\ DOMAIN ret = {}

\* C8: the object delta returns holds no ignored key, name and keys with a
\* comparator included.
C8_DeltaNoIgnoredKey ==
    DeltaDone => DOMAIN ret \cap call.ignored = {}

\* name is ignored, has a comparator that returns a value and differs, and another key
\* made the result non-empty
C8_Witness ==
    /\ DeltaDone
    /\ call.ignored = {"name"}
    /\ "name" \in DOMAIN call.compares
    /\ call.compares["name"] = "instance"
    /\ DOMAIN call.instance = {"name", "size"}
    /\ DOMAIN call.base = {"name", "size"}
    /\ call.instance["name"] # call.base["name"]
    /\ DOMAIN ret = {"size"}

\* whether a comparator's return value r counts as included: any non-null one
\* (anyNonNull), or only a proper value
ComparatorIncludes(r, anyNonNull) ==
    IF anyNonNull THEN r.type # "Null" ELSE r.type = "Value"

\* the keys the rule of the claim includes before name is put back
DeltaRefKeys(anyNonNull) ==
    {k \in DOMAIN call.instance \ call.ignored :
        IF k \notin DOMAIN call.base THEN TRUE
        ELSE IF k \in DOMAIN call.compares
             THEN ComparatorIncludes(CompareApply(call.compares[k], call.base[k], call.instance[k]),
                                     anyNonNull)
             ELSE call.base[k] # call.instance[k]}

DeltaRefValue(k) ==
    IF k \in DOMAIN call.base /\ k \in DOMAIN call.compares
    THEN LET r == CompareApply(call.compares[k], call.base[k], call.instance[k])
         IN  IF r.type = "Value" THEN r.v ELSE r
    ELSE call.instance[k]

DeltaRef(anyNonNull) ==
    LET ks == DeltaRefKeys(anyNonNull)
        nameBack == ks # {} /\ "name" \notin call.ignored /\ "name" \in DOMAIN call.instance
    IN  [k \in ks \cup (IF nameBack THEN {"name"} ELSE {}) |->
            IF k = "name" /\ nameBack THEN call.instance["name"] ELSE DeltaRefValue(k)]

Has(obj, k) == k \in DOMAIN obj
\* obj[k].toString(): the empty string when k is absent
Str(obj, k) == IF k \in DOMAIN obj THEN obj[k] ELSE ""
\* obj[k].toArray(): the empty array when k is absent
Arr(obj, k) == IF k \in DOMAIN obj THEN obj[k] ELSE <<>>

\* QHash::insert of every entry of `more` into `objects`
HashInsertAll(objects, more) ==
    [k \in DOMAIN objects \cup DOMAIN more |-> IF k \in DOMAIN more THEN more[k] ELSE objects[k]]

RECURSIVE getObjectsByType_Deep(_, _)
\* getObjectsByType searching the children of a matching node as well
getObjectsByType_Deep(obj, type) ==
    LET RECURSIVE Over(_, _)
        Over(i, objects) ==
            IF i > Len(Arr(obj, "children")) THEN objects
            ELSE Over(i + 1, HashInsertAll(objects, getObjectsByType_Deep(obj["children"][i], type)))
        own == IF Str(obj, "type") = type THEN (Str(obj, "id") :> obj) ELSE EmptyObject
    IN  IF Has(obj, "children") THEN HashInsertAll(Over(1, EmptyObject), own) ELSE own

RECURSIVE getObjectsByType(_, _)
getObjectsByType(obj, type) ==
    LET RECURSIVE Over(_, _)
        Over(i, objects) ==
            IF i > Len(obj["children"]) THEN objects
            ELSE Over(i + 1, HashInsertAll(objects, getObjectsByType(obj["children"][i], type)))
    IN  IF Str(obj, "type") = type THEN (Str(obj, "id") :> obj)
        ELSE IF Has(obj, "children") THEN Over(1, EmptyObject)
        ELSE EmptyObject

\* the sorted order of QJsonObject::keys() on the keys of the model
KeyOrder == <<"1:1", "2:2", "3:3", "4:4", "5:5">>

\* components.keys(): the keys of the table in sorted order
RECURSIVE SortedKeys(_, _)
SortedKeys(table, i) ==
    IF i > Len(KeyOrder) THEN <<>>
    ELSE (IF KeyOrder[i] \in DOMAIN table THEN <<KeyOrder[i]>> ELSE <<>>) \o SortedKeys(table, i + 1)

\* the names of the components registered in map
MapNames(map) == {map[k].name : k \in DOMAIN map}

\* the unique name taken without looking at the names already registered
UniqueName_NoLoop(componentName, map) == validFileName(componentName)

\* lines 162-169: the sanitized name, with a counter appended to the raw name
\* for as long as the result is the name of a registered component
\* (QString("%1_%2").arg(componentName).arg(count), for raw names without a % marker)
UniqueName(componentName, map) ==
    LET RECURSIVE Try(_, _)
        Try(uniqueComponentName, count) ==
            IF uniqueComponentName \in MapNames(map)
            THEN Try(validFileName(componentName \o <<"_">> \o Digits(count)), count + 1)
            ELSE uniqueComponentName
    IN  Try(validFileName(componentName), 1)

\* lines 140-159: the body of key, from the document or from the callback;
\* [ok, object, log, what]: the COMPONENT object or the failure raised
ResolveComponent(key, componentObjects, nodes) ==
    IF key \in DOMAIN componentObjects
    THEN [ok |-> TRUE, object |-> componentObjects[key], log |-> <<>>]
    ELSE LET response == nodes[key]
             log == <<[fn |-> "nodes", key |-> key]>>
         IN  IF response.kind = "empty"
             THEN [ok |-> FALSE, what |-> "Component not found", log |-> log]
             ELSE IF response.kind = "json"
             THEN LET receivedObjects == getObjectsByType(response.document, "COMPONENT")
                  IN  IF key \notin DOMAIN receivedObjects
                      THEN [ok |-> FALSE, what |-> "Unrecognized component", log |-> log]
                      ELSE [ok |-> TRUE, object |-> receivedObjects[key], log |-> log]
             ELSE [ok |-> FALSE, what |-> "Invalid component", log |-> log]

RECURSIVE ComponentsLoop(_, _, _, _, _, _)
\* lines 139-177: the loop over the keys left; [map, errs, log]
ComponentsLoop(keys, table, componentObjects, nodes, map, log) ==
    IF keys = <<>> THEN [map |-> map, errs |-> <<>>, log |-> log]
    ELSE LET key == Head(keys)
             r == ResolveComponent(key, componentObjects, nodes)
         IN  IF ~r.ok
             \* the exception leaves the loop; the catch block reports it and the
             \* map built so far is returned (lines 178-182)
             THEN [map |-> map,
                   errs |-> <<[what |-> r.what, isFatal |-> TRUE]>>,
                   log |-> log \o r.log]
             ELSE LET c == table[key]
                      comp == [name |-> UniqueName(Str(c, "name"), map),
                               id |-> key,
                               key |-> Str(c, "key"),
                               description |-> Str(c, "description"),
                               object |-> r.object]
                  IN  ComponentsLoop(Tail(keys), table,
                                     HashInsertAll(componentObjects, key :> r.object),
                                     nodes, HashInsertAll(map, key :> comp), log \o r.log)

components(project, nodes) ==
    ComponentsLoop(SortedKeys(project.components, 1), project.components,
                   getObjectsByType(project.document, "COMPONENT"), nodes, EmptyObject, <<>>)

Components ==
    /\ pc = "call"
    /\ call.fn = "components"
    /\ LET r == components(call.project, call.nodes)
       IN  /\ ret' = r.map
           /\ errs' = r.errs
           /\ cbLog' = r.log
    /\ pc' = "done"
    /\ UNCHANGED <<call, parsed, lookups, traversals>>

NextComponents == Components

(***************************************************************************)
(* Specification SpecComponents: components() on a document of up to       *)
(* MaxDocNodes nodes below the root, a table over two keys and a callback. *)
(***************************************************************************)
MaxDocNodes == 2

\* the tree of node i of a document given by each node's parent and type: node 0
\* is the root, node i > 0 has the id KeyOrder[i], and the children of a node
\* are the nodes naming it as parent, in increasing order
RECURSIVE BuildTree(_, _, _)
BuildTree(i, parents, types) ==
    LET n == Len(parents)
        RECURSIVE Kids(_)
        Kids(j) == IF j > n THEN <<>>
                   ELSE (IF parents[j] = i THEN <<BuildTree(j, parents, types)>> ELSE <<>>) \o Kids(j + 1)
        kids == Kids(i + 1)
        base == IF i = 0 THEN [id |-> "0:0", type |-> "DOCUMENT"]
                ELSE [id |-> KeyOrder[i], type |-> types[i]]
    IN  IF kids = <<>> THEN base
        ELSE [id |-> base.id, type |-> base.type, children |-> kids]

Documents(n) ==
    {BuildTree(0, parents, types) :
        parents \in {p \in [1..n -> 0..(n - 1)] : \A i \in 1..n : p[i] < i},
        types \in [1..n -> {"FRAME", "COMPONENT"}]}

TableEntry(name) == [name |-> name, key |-> "k", description |-> "d"]

ComponentNode(id) == [id |-> id, type |-> "COMPONENT"]

\* what the callback answers for a key
\*   "empty"    no bytes
\*   "invalid"  bytes that are not JSON
\*   "ok"       a reply whose document is the COMPONENT
\*   "wrapped"  a reply whose document is a FRAME holding the COMPONENT
\*   "nested"   a reply whose document is another COMPONENT holding the COMPONENT
\*   "absent"   a reply without nodes[key].document
ResponseKinds == {"empty", "invalid", "ok", "wrapped", "nested", "absent"}

Response(kind, key) ==
    CASE kind = "empty" -> [kind |-> "empty"]
      [] kind = "invalid" -> [kind |-> "invalid"]
      [] kind = "ok" -> [kind |-> "json", document |-> ComponentNode(key)]
      [] kind = "wrapped" ->
            [kind |-> "json",
             document |-> [id |-> "9:9", type |-> "FRAME", children |-> <<ComponentNode(key)>>]]
      [] kind = "nested" ->
            [kind |-> "json",
             document |-> [id |-> "9:9", type |-> "COMPONENT", children |-> <<ComponentNode(key)>>]]
      [] kind = "absent" -> [kind |-> "json", document |-> EmptyObject]

TableKeys == {"1:1", "2:2"}
TableNames == {<<"B">>, <<"b">>}

Tables == UNION {[ks -> {TableEntry(n) : n \in TableNames}] : ks \in SUBSET TableKeys}

NodeFuncs == {[k \in TableKeys |-> Response(kinds[k], k)] : kinds \in [TableKeys -> ResponseKinds]}

InitComponents ==
    /\ call \in {[fn |-> "components", project |-> [document |-> d, components |-> t], nodes |-> f] :
                    d \in Documents(MaxDocNodes), t \in Tables, f \in NodeFuncs}
    /\ ret = NoRet
    /\ errs = <<>>
    /\ cbLog = <<>>
    /\ parsed = <<>>
    /\ lookups = {}
    /\ traversals = {}
    /\ pc = "call"

SpecComponents == InitComponents /\ [][NextComponents]_vars

ComponentsDone == pc = "done" /\ call.fn = "components"

\* C5: when components() hits a failure it reports exactly one issue, with
\* isFatal = true, and returns an empty catalogue: no component registered
\* before the failing key is retained.
C5_FailureGivesEmptyCatalogue ==
    (ComponentsDone /\ errs # <<>>) =>
        /\ Len(errs) = 1
        /\ errs[1].isFatal
        /\ DOMAIN ret = {}

\* the paths (sequences of child indices) of the nodes of a tree
RECURSIVE Paths(_)
Paths(obj) ==
    {<<>>} \cup UNION {{<<i>> \o p : p \in Paths(obj["children"][i])} :
                        i \in 1..Len(Arr(obj, "children"))}

RECURSIVE NodeAt(_, _)
NodeAt(obj, path) ==
    IF path = <<>> THEN obj ELSE NodeAt(obj["children"][Head(path)], Tail(path))

IsComponentAt(doc, path, key) ==
    LET n == NodeAt(doc, path) IN Str(n, "type") = "COMPONENT" /\ Str(n, "id") = key

\* the document holds a COMPONENT node with id key at some depth
InDocument(doc, key) == \E p \in Paths(doc) : IsComponentAt(doc, p, key)

\* the document holds a COMPONENT node with id key that is not inside another COMPONENT
InDocumentOutsideComponents(doc, key) ==
    \E p \in Paths(doc) :
        /\ IsComponentAt(doc, p, key)
        /\ \A n \in 0..(Len(p) - 1) : Str(NodeAt(doc, SubSeq(p, 1, n)), "type") # "COMPONENT"

NodesCalls(key) == {i \in DOMAIN cbLog : cbLog[i] = [fn |-> "nodes", key |-> key]}

\* C6 (as stated): resolveRemoteNode(key) is invoked only for keys of the table
\* whose COMPONENT node is nowhere in the document, at any depth and also inside
\* another COMPONENT, and exactly once for each such key.
C6_Original ==
    ComponentsDone =>
        /\ \A i \in DOMAIN cbLog : cbLog[i].key \in DOMAIN call.project.components
        /\ \A key \in DOMAIN call.project.components :
              Cardinality(NodesCalls(key)) =
                  IF InDocument(call.project.document, key) THEN 0 ELSE 1

\* C6 (amended): resolveRemoteNode(key) is invoked only for keys of the table
\* whose COMPONENT node is not in the document outside every other COMPONENT
\* node (a COMPONENT nested in another COMPONENT is not found), at most once for
\* each such key, and exactly once for each of them when no failure is reported;
\* after a failure no further key is looked up.
C6_RemoteLookupOnlyWhenNotInline ==
    ComponentsDone =>
        /\ \A i \in DOMAIN cbLog : cbLog[i].key \in DOMAIN call.project.components
        /\ \A key \in DOMAIN call.project.components :
              IF InDocumentOutsideComponents(call.project.document, key)
              THEN NodesCalls(key) = {}
              ELSE /\ Cardinality(NodesCalls(key)) <= 1
                   /\ errs = <<>> => Cardinality(NodesCalls(key)) = 1
        /\ errs # <<>> =>
              /\ cbLog # <<>>
              /\ cbLog[Len(cbLog)].key \notin DOMAIN ret

\* one component was found in the document, the other, nested in it, was fetched
C6_Witness ==
    /\ ComponentsDone
    /\ DOMAIN call.project.components = {"1:1", "2:2"}
    /\ InDocumentOutsideComponents(call.project.document, "1:1")
    /\ InDocument(call.project.document, "2:2")
    /\ ~InDocumentOutsideComponents(call.project.document, "2:2")
    /\ cbLog = <<[fn |-> "nodes", key |-> "2:2"]>>
    /\ errs = <<>>
    /\ DOMAIN ret = {"1:1", "2:2"}

(***************************************************************************)
(* Specification SpecCatalogue: components() on a table of MaxKeys keys    *)
(* whose raw names collide.                                                *)
(***************************************************************************)
MaxKeys == 3

CatalogueKeys == {KeyOrder[i] : i \in 1..MaxKeys}

\* identical names, names that differ but sanitize alike, a name that is another
\* name plus a counter, and the empty name
CatalogueNames == {<<"B">>, <<"b">>, <<"B", "_", "1">>, <<>>}

\* all components in the document, or none of them
FlatDocument(inline) ==
    IF inline
    THEN [id |-> "0:0", type |-> "DOCUMENT",
          children |-> [i \in 1..MaxKeys |-> ComponentNode(KeyOrder[i])]]
    ELSE [id |-> "0:0", type |-> "DOCUMENT"]

InitCatalogue ==
    /\ call \in {[fn |-> "components",
                  project |-> [document |-> FlatDocument(inline), components |-> t],
                  nodes |-> [k \in CatalogueKeys |->
                                Response(IF k = failing THEN "empty" ELSE "ok", k)]] :
                    inline \in BOOLEAN,
                    t \in [CatalogueKeys -> {TableEntry(n) : n \in CatalogueNames}],
                    failing \in {"none", KeyOrder[MaxKeys]}}
    /\ ret = NoRet
    /\ errs = <<>>
    /\ cbLog = <<>>
    /\ parsed = <<>>
    /\ lookups = {}
    /\ traversals = {}
    /\ pc = "call"

SpecCatalogue == InitCatalogue /\ [][NextComponents]_vars

\* the keys of the table before key in the order of registration
EarlierKeys(key) ==
    {KeyOrder[j] : j \in {j \in DOMAIN KeyOrder :
        /\ KeyOrder[j] \in DOMAIN call.project.components
        /\ \E i \in DOMAIN KeyOrder : KeyOrder[i] = key /\ j < i}}

RawName(key) == call.project.components[key].name

\* C3: after components() the names of the registered components are pairwise
\* distinct; unless a failure is reported every key of the table is registered;
\* the component registered first keeps the sanitized raw name, and one whose
\* sanitized raw name is taken by a component registered earlier (the same raw
\* name, another raw name sanitizing alike, or a name plus a counter) gets a
\* counter appended to the raw name before sanitizing.
C3_UniqueComponentNames ==
    ComponentsDone =>
        /\ \A k1, k2 \in DOMAIN ret : k1 # k2 => ret[k1].name # ret[k2].name
        /\ errs = <<>> => DOMAIN ret = DOMAIN call.project.components
        /\ \A k \in DOMAIN ret :
              LET taken == {ret[e].name : e \in EarlierKeys(k)}
              IN  IF validFileName(RawName(k)) \notin taken
                  THEN ret[k].name = validFileName(RawName(k))
                  ELSE \E count \in 1..Cardinality(DOMAIN ret) :
                          ret[k].name = validFileName(RawName(k) \o <<"_">> \o Digits(count))

\* B, B and B_1: the second B takes B_1_figma, and B_1 moves on to B_1_1_figma
C3_Witness ==
    /\ ComponentsDone
    /\ errs = <<>>
    /\ RawName("1:1") = <<"B">>
    /\ RawName("2:2") = <<"B">>
    /\ RawName("3:3") = <<"B", "_", "1">>
    /\ ret["1:1"].name = <<"B">> \o FIGMA_SUFFIX
    /\ ret["2:2"].name = <<"B", "_", "1">> \o FIGMA_SUFFIX
    /\ ret["3:3"].name = <<"B", "_", "1", "_", "1">> \o FIGMA_SUFFIX

(***************************************************************************)
(* element() and component(): the transpiler.                              *)
(*                                                                         *)
(* The markup is a sequence of tokens, one per emitted line: a block       *)
(* opening `Type {`, a closing brace, a property whose value is a list of  *)
(* string pieces, a property whose value is a number, or a comment.        *)
(* Indentation is white space only and is not modelled.                    *)
(*                                                                         *)
(* Every emitter returns a result [ok, out, ids, log, trace, what]: the    *)
(* markup it produced, the component ids added to m_componentIds, the      *)
(* image-provider calls and the parse invocations it made, in order, and,  *)
(* when an Exception leaves it (ok = FALSE), the exception's message; out, *)
(* ids, log and trace are then what had been produced before the throw.    *)
(* The m_parent slot is passed as the argument mparent.                    *)
(***************************************************************************)
Open(type) == [k |-> "open", n |-> type]
\* a block whose type is the sanitized name of a component
OpenComponent(name) == [k |-> "open", component |-> name]
Close == [k |-> "close"]
Prop(name, pieces) == [k |-> "prop", n |-> name, v |-> pieces]

HexDigit == <<"0", "1", "2", "3", "4", "5", "6", "7", "8", "9", "a", "b", "c", "d", "e", "f">>

RECURSIVE DigitsIn(_, _)
\* the digits of n >= 0 in the base, lowercase
DigitsIn(n, base) ==
    IF n < base THEN <<HexDigit[n + 1]>>
    ELSE DigitsIn(n \div base, base) \o <<HexDigit[(n % base) + 1]>>

RECURSIVE Pow10(_)
Pow10(e) == IF e = 0 THEN 1 ELSE 10 * Pow10(e - 1)

RECURSIVE StripZeros(_)
StripZeros(ds) ==
    IF ds # <<>> /\ ds[Len(ds)] = "0" THEN StripZeros(SubSeq(ds, 1, Len(ds) - 1)) ELSE ds

\* q units and a rest r, rounded to whole units (a half goes to the even one)
Rounded(q, r, unit) == IF 2 * r > unit \/ (2 * r = unit /\ q % 2 = 1) THEN q + 1 ELSE q

\* "d.ddddde+XX" of the mantissa digits and the exponent digits
Scientific(mantissa, exponent) ==
    <<Head(mantissa)>> \o (IF Len(mantissa) > 1 THEN <<".">> \o Tail(mantissa) ELSE <<>>)
    \o <<"e", "+">> \o (IF Len(exponent) < 2 THEN <<"0">> ELSE <<>>) \o exponent

\* the text of a number of len > 6 digits whose first six, rounded, are m
Exponential(m, len) ==
    IF m = 1000000 THEN Scientific(<<"1">>, DigitsIn(len, 10))
    ELSE Scientific(StripZeros(DigitsIn(m, 10)), DigitsIn(len - 1, 10))

\* the first six digits of x, rounded, where unit is the weight of the sixth
SixDigits(x, unit) == Rounded(x \div unit, x % unit, unit)

\* QString::number(double) and QString::arg(double), format 'g' with six
\* significant digits, of a whole number x >= 0: the digits below a million,
\* and from there on a mantissa rounded to six digits with an exponent
NumberText(x, digits) ==
    IF x < 1000000 THEN digits
    ELSE Exponential(SixDigits(x, Pow10(Len(digits) - 6)), Len(digits))

Magnitude(x) == IF x < 0 THEN -x ELSE x

number(x) ==
    (IF x < 0 THEN <<"-">> ELSE <<>>) \o NumberText(Magnitude(x), DigitsIn(Magnitude(x), 10))

\* "<name>:<x>" for a number x; the x and y that the source writes from an int
\* have the same text below a million
Num(name, x) == [k |-> "num", n |-> name, x |-> number(x)]

\* round(c * 255.) of a channel c = num / den >= 0 (std::round: halves go up)
Round255(num, den) == (2 * 255 * num + den) \div (2 * den)

\* .arg(v, 2, 16, QLatin1Char('0')): at least two lowercase hexadecimal digits
Hex2(v) == IF v < 16 THEN <<"0">> \o DigitsIn(v, 16) ELSE DigitsIn(v, 16)

\* toColor writing the alpha channel last
toColor_AlphaLast(r, g, b, a) ==
    <<"#">> \o Hex2(Round255(r, 4)) \o Hex2(Round255(g, 4))
           \o Hex2(Round255(b, 4)) \o Hex2(Round255(a, 16))

\* lines 401-407: "#AARRGGBB".  A colour channel or a paint opacity c is held
\* as the whole number 4 * c, so that a is in sixteenths once multiplied by
\* an opacity
toColor(r, g, b, a) ==
    <<"#">> \o Hex2(Round255(a, 16)) \o Hex2(Round255(r, 4))
           \o Hex2(Round255(g, 4)) \o Hex2(Round255(b, 4))

Comment(text) == [k |-> "comment", n |-> text]

\* what a step did: whether it returned, the markup, the component ids met,
\* the callbacks, the trace of parse, the dereferences of the catalogue, the
\* returns of parseChildrenItems, and the message of the exception thrown
Ok(out) ==
    [ok |-> TRUE, out |-> out, ids |-> {}, log |-> <<>>, trace |-> <<>>, derefs |-> {},
     frames |-> {}, what |-> ""]
\* ERR(...): throw FigmaParser::Exception
Err(what) ==
    [ok |-> FALSE, out |-> <<>>, ids |-> {}, log |-> <<>>, trace |-> <<>>, derefs |-> {},
     frames |-> {}, what |-> what]

\* a, then b unless an exception left a
Then(a, b) ==
    IF ~a.ok THEN a
    ELSE [ok |-> b.ok, out |-> a.out \o b.out, ids |-> a.ids \cup b.ids,
          log |-> a.log \o b.log, trace |-> a.trace \o b.trace,
          derefs |-> a.derefs \cup b.derefs,
          frames |-> a.frames \cup b.frames, what |-> b.what]

\* A field holding the string "" in place of an array (lines 1825 and 1830) is
\* kept as the empty array its toArray() gives, with a mark saying it is a string.
StringMark(k) == IF k = "fills" THEN "fills:string" ELSE "strokes:string"
\* obj.insert(k, "")
InsertEmptyString(obj, k) ==
    [x \in DOMAIN obj \cup {k, StringMark(k)} |->
        IF x = k THEN <<>> ELSE IF x = StringMark(k) THEN TRUE ELSE obj[x]]
\* obj[k].isString()
IsString(obj, k) == k \in DOMAIN obj /\ StringMark(k) \in DOMAIN obj
\* obj[k].toArray()
ArrayOf(obj, k) == IF k \in DOMAIN obj THEN obj[k] ELSE <<>>
\* obj[k].toBool(): false when k is absent
Bool(obj, k) == IF k \in DOMAIN obj THEN obj[k] ELSE FALSE
\* obj[k].toDouble(): 0 when k is absent
Dbl(obj, k) == IF k \in DOMAIN obj THEN obj[k] ELSE 0
\* obj[k].toObject(): the empty object when k is absent
Obj(obj, k) == IF k \in DOMAIN obj THEN obj[k] ELSE EmptyObject

PlaceHolder == "placeholder"

\* lines 409-412: figma_ and the id with every character that is no letter
\* and no digit replaced by _ and the letters in lower case, written out for
\* the ids of the inputs
qmlId(id) ==
    <<"figma_",
      CASE id = "1:1" -> "1_1"
        [] id = "c:1" -> "c_1"
        [] id = "c:9" -> "c_9"
        [] id = "I9;c1" -> "i9_c1"
        [] id = "I9;c2" -> "i9_c2"
        [] id = "I9;c3" -> "i9_c3"
        [] id = "n1.1" -> "n1_1"
        [] id = "n2.1" -> "n2_1"
        [] id = "n3.1" -> "n3_1"
        [] id = "n1.2" -> "n1_2"
        [] id = "n2.2" -> "n2_2"
        [] id = "n3.2" -> "n3_2"
        [] OTHER -> id>>

\* the type of a node, lines 1227-1250
\* the table of type() without the entry of SLICE
types_NoSlice ==
    ("RECTANGLE" :> "Vector") @@ ("TEXT" :> "Text") @@ ("COMPONENT" :> "Component") @@
    ("BOOLEAN_OPERATION" :> "Boolean") @@ ("INSTANCE" :> "Instance") @@
    ("ELLIPSE" :> "Vector") @@ ("VECTOR" :> "Vector") @@ ("LINE" :> "Vector") @@
    ("REGULAR_POLYGON" :> "Vector") @@ ("STAR" :> "Vector") @@ ("GROUP" :> "Frame") @@
    ("FRAME" :> "Frame") @@ ("NONE" :> "None")

\* the table types of type(), lines 1228-1243
types ==
    ("RECTANGLE" :> "Vector") @@ ("TEXT" :> "Text") @@ ("COMPONENT" :> "Component") @@
    ("BOOLEAN_OPERATION" :> "Boolean") @@ ("INSTANCE" :> "Instance") @@
    ("ELLIPSE" :> "Vector") @@ ("VECTOR" :> "Vector") @@ ("LINE" :> "Vector") @@
    ("REGULAR_POLYGON" :> "Vector") @@ ("STAR" :> "Vector") @@ ("GROUP" :> "Frame") @@
    ("FRAME" :> "Frame") @@ ("SLICE" :> "None") @@ ("NONE" :> "None")

\* the table parsers of parse(), lines 764-779
parsers ==
    ("RECTANGLE" :> "parseRectangle") @@ ("TEXT" :> "parseText") @@
    ("COMPONENT" :> "parseComponent") @@ ("BOOLEAN_OPERATION" :> "parseBooleanOperation") @@
    ("INSTANCE" :> "parseInstance") @@ ("ELLIPSE" :> "parseEllipse") @@
    ("VECTOR" :> "parseVector") @@ ("LINE" :> "parseLine") @@
    ("REGULAR_POLYGON" :> "parsePolygon") @@ ("STAR" :> "parseStar") @@
    ("GROUP" :> "parseGroup") @@ ("FRAME" :> "parseFrame") @@ ("SLICE" :> "parseSlice") @@
    ("NONE" :> "makePlainItem")

\* the type strings parse() has a parser for
KnownTypes == DOMAIN parsers

\* the type strings whose parser returns parseVector (lines 1264-1282)
VectorTypes == {"RECTANGLE", "ELLIPSE", "VECTOR", "LINE", "REGULAR_POLYGON", "STAR"}

\* lines 1227-1250: the ItemType of a node, "unsupported" standing for the
\* ERR of line 1246
type(obj) ==
    IF Str(obj, "type") \in DOMAIN types THEN types[Str(obj, "type")] ELSE "unsupported"

isGradient(obj) ==
    /\ Has(obj, "fills")
    /\ \E i \in DOMAIN ArrayOf(obj, "fills") : Has(obj["fills"][i], "gradientHandlePositions")

\* the imageRef of the first fill, or NoImage
NoImage == [none |-> TRUE]
imageFill(obj) ==
    LET fills == ArrayOf(obj, "fills")
    IN  IF Has(obj, "fills") /\ Len(fills) > 0 /\ Has(fills[1], "imageRef")
        THEN [ref |-> fills[1]["imageRef"]]
        ELSE NoImage

\* isRendering deciding on the node's own flag alone
isRendering_FlagOnly(flags, obj) == Bool(obj, "isRendering")

isRendering(flags, obj) ==
    IF Bool(obj, "isRendering") THEN TRUE
    ELSE IF type(obj) = "Vector" /\ ("PrerenderShapes" \in flags \/ isGradient(obj)) THEN TRUE
    ELSE IF type(obj) = "Text" /\ isGradient(obj) THEN TRUE
    ELSE IF type(obj) = "Frame" /\ Str(obj, "type") # "GROUP" /\ "PrerenderFrames" \in flags THEN TRUE
    ELSE IF Str(obj, "type") = "GROUP" /\ "PrerenderGroups" \in flags THEN TRUE
    ELSE IF type(obj) = "Component" /\ "PrerenderComponents" \in flags THEN TRUE
    ELSE IF type(obj) = "Instance" /\ "PrerenderInstances" \in flags THEN TRUE
    ELSE FALSE

\* mImageProvider(image, isRendering): the bytes, empty for the images in ctx.noImage
ImageBytes(ctx, image) == IF image \in ctx.noImage THEN <<>> ELSE <<"data:", image>>
ImageCall(image, rendering) == [fn |-> "image", image |-> image, isRendering |-> rendering]

\* makeImageSource giving up on the first empty answer, placeholder or not
makeImageSource_NoFallback(ctx, image, rendering, placeHolder) ==
    IF ImageBytes(ctx, image) = <<>>
    THEN [Err("Cannot read imageRef") EXCEPT !.log = <<ImageCall(image, rendering)>>]
    ELSE [Ok(<<Prop("source", ImageBytes(ctx, image))>>) EXCEPT !.log = <<ImageCall(image, rendering)>>]

\* lines 580-602; placeHolder = "" stands for the default QString()
makeImageSource(ctx, image, rendering, placeHolder) ==
    LET first == ImageBytes(ctx, image)
        call1 == ImageCall(image, rendering)
    IN  IF first = <<>>
        THEN IF placeHolder = ""
             THEN [Err("Cannot read imageRef") EXCEPT !.log = <<call1>>]
             ELSE LET second == ImageBytes(ctx, placeHolder)
                      calls == <<call1, ImageCall(placeHolder, rendering)>>
                  IN  IF second = <<>>
                      THEN [Err("Cannot load placeholder") EXCEPT !.log = calls]
                      ELSE [Ok(<<Comment("Image load failed, placeholder"),
                                 Prop("sourceSize", <<"Qt.size(parent.width, parent.height)">>),
                                 Prop("source", second)>>)
                            EXCEPT !.log = calls]
        ELSE [Ok(<<Prop("source", first)>>) EXCEPT !.log = <<call1>>]

\* lines 604-614
makeImageRef(ctx, image) ==
    Then(Ok(<<Open("Image"), Prop("anchors.fill", <<"parent">>), Prop("mipmap", <<"true">>),
              Prop("fillMode", <<"Image.PreserveAspectCrop">>)>>),
    Then(makeImageSource(ctx, image, FALSE, ""),
         Ok(<<Close>>)))

\* lines 414-423
makeComponentInstance(typeToken, obj) ==
    <<typeToken, Prop("id", qmlId(Str(obj, "id"))), Prop("objectName", <<Str(obj, "name")>>)>>

\* lines 517-551: the first effect only, when it is a shadow
makeEffects(obj) ==
    LET effects == ArrayOf(obj, "effects")
        effect == effects[1]
        inner == Str(effect, "type") = "INNER_SHADOW"
        offset == Obj(effect, "offset")
    IN  IF Has(obj, "effects") /\ effects # <<>>
           /\ Str(effect, "type") \in {"INNER_SHADOW", "DROP_SHADOW"}
        THEN <<Prop("layer.enabled", <<"true">>), Open("layer.effect: DropShadow"),
               Num("horizontalOffset", IF inner THEN -Dbl(offset, "x") ELSE Dbl(offset, "x")),
               Num("verticalOffset", IF inner THEN -Dbl(offset, "y") ELSE Dbl(offset, "y")),
               Num("radius", Dbl(effect, "radius")), Prop("samples", <<"17">>),
               [k |-> "color", n |-> "color",
                v |-> toColor(Dbl(Obj(effect, "color"), "r"), Dbl(Obj(effect, "color"), "g"),
                              Dbl(Obj(effect, "color"), "b"), Dbl(Obj(effect, "color"), "a") * 4)],
               Close>>
        ELSE <<>>

\* lines 555-578: a matrix only when the linear part is not the identity
makeTransforms(obj) ==
    IF Has(obj, "relativeTransform")
    THEN LET rows == obj["relativeTransform"]
         IN  IF rows[1][1] # 1 \/ rows[1][2] # 0 \/ rows[2][1] # 0 \/ rows[2][2] # 1
             THEN <<Open("transform: Matrix4x4"),
                    [k |-> "matrix", n |-> "matrix",
                     rows |-> <<rows[1] \o <<0>>, rows[2] \o <<0>>, <<0, 0, 1, 0>>, <<0, 0, 0, 1>>>>],
                    Close>>
             ELSE <<>>
    ELSE <<>>

\* lines 425-439
makeItem(typeToken, obj) ==
    makeComponentInstance(typeToken, obj) \o makeEffects(obj) \o makeTransforms(obj)
    \o (IF Has(obj, "visible") /\ ~Bool(obj, "visible") THEN <<Prop("visible", <<"false">>)>> ELSE <<>>)
    \o (IF Has(obj, "opacity") THEN <<Num("opacity", obj["opacity"])>> ELSE <<>>)

\* lines 441-446
position(obj) ==
    LET rows == ArrayOf(obj, "relativeTransform")
    IN  IF Len(rows) >= 2 THEN [x |-> rows[1][3], y |-> rows[2][3]] ELSE [x |-> 0, y |-> 0]

\* lines 1796-1803: [value, derefs], the value and the ids the catalogue was
\* dereferenced for.  (*m_components)[id] of an id that is not registered is a
\* null pointer, and what ->object() gives then is undefined: the id is
\* recorded and the value left undefined.
Deref(id, at) == [id |-> id, at |-> at]

RECURSIVE getValue(_, _, _)
getValue(ctx, obj, key) ==
    IF Has(obj, key) THEN [value |-> obj[key], derefs |-> {}]
    ELSE IF type(obj) = "Instance"
    THEN IF Str(obj, "componentId") \in DOMAIN ctx.components
         THEN [getValue(ctx, ctx.components[Str(obj, "componentId")].object, key)
               EXCEPT !.derefs = @ \cup {Deref(Str(obj, "componentId"), "getValue")}]
         ELSE [value |-> JUndefined, derefs |-> {Deref(Str(obj, "componentId"), "getValue")}]
    ELSE [value |-> JNull, derefs |-> {}]

\* the CENTER expression of lines 466-473 and 479-486 over what getValue(obj, "size")
\* gave: the parent's live extent with twice the static remainder
CenterAxis(mparent, prop, dim, t, size) ==
    [Ok(<<[k |-> "center", n |-> prop, v |-> qmlId(Str(mparent, "id")),
           x |-> Dbl(Obj(mparent, "size"), dim) - Dbl(size.value, dim) - 2 * t]>>)
     EXCEPT !.derefs = size.derefs]

\* one axis of makeExtents (lines 463-487): the fixed offset, or the CENTER expression
ExtentAxis(ctx, obj, mparent, constraint, fixed, prop, dim, t) ==
    IF constraint \in fixed THEN Ok(<<Num(prop, t)>>)
    ELSE IF constraint = "CENTER"
    THEN CenterAxis(mparent, prop, dim, t, getValue(ctx, obj, "size"))
    ELSE Ok(<<>>)

\* lines 448-497; extents = [x, y, width, height]
makeExtents(ctx, obj, mparent, extents) ==
    LET constraints == Obj(obj, "constraints")
        horizontal == IF Has(obj, "constraints") THEN Str(constraints, "horizontal") ELSE "LEFT"
        vertical == IF Has(obj, "constraints") THEN Str(constraints, "vertical") ELSE "TOP"
        p == position(obj)
    IN  Then(IF Has(obj, "relativeTransform")
             THEN Then(ExtentAxis(ctx, obj, mparent, horizontal,
                                  {"LEFT", "SCALE", "LEFT_RIGHT", "RIGHT"}, "x", "x", p.x + extents.x),
                       ExtentAxis(ctx, obj, mparent, vertical,
                                  {"TOP", "SCALE", "TOP_BOTTOM", "BOTTOM"}, "y", "y", p.y + extents.y))
             ELSE Ok(<<>>),
             Ok(IF Has(obj, "size")
                THEN <<Num("width", Dbl(obj["size"], "x") + extents.width),
                       Num("height", Dbl(obj["size"], "y") + extents.height)>>
                ELSE <<>>))

NoExtents == [x |-> 0, y |-> 0, width |-> 0, height |-> 0]

\* lines 499-508
makeSize(obj) ==
    <<Num("width", Dbl(Obj(obj, "size"), "x")), Num("height", Dbl(Obj(obj, "size"), "y"))>>

\* lines 510-515; the opacity in quarters
makeColor(obj, opacity) ==
    <<[k |-> "color", n |-> "color",
       v |-> toColor(Dbl(obj, "r"), Dbl(obj, "g"), Dbl(obj, "b"), Dbl(obj, "a") * opacity)]>>

\* lines 616-633: the colour of a fill entry and, for an image fill, the image
makeFill(ctx, obj) ==
    LET invisible == Has(obj, "visible") /\ ~Bool(obj, "visible")
    IN  Then(Ok(IF Has(obj, "color")
                THEN IF ~invisible /\ Has(obj, "opacity")
                     THEN makeColor(Obj(obj, "color"), Dbl(obj, "opacity"))
                     ELSE makeColor(Obj(obj, "color"), IF invisible THEN 0 ELSE 4)
                ELSE <<Prop("color", <<"transparent">>)>>),
             IF Has(obj, "imageRef") THEN makeImageRef(ctx, obj["imageRef"]) ELSE Ok(<<>>))

\* lines 635-645
makeVector(ctx, obj, mparent) ==
    LET fills == ArrayOf(obj, "fills")
    IN  Then(makeExtents(ctx, obj, mparent, NoExtents),
             IF Len(fills) > 0 THEN makeFill(ctx, fills[1])
             ELSE IF ~IsString(obj, "fills") THEN Ok(<<Prop("color", <<"transparent">>)>>)
             ELSE Ok(<<>>))

(***************************************************************************)
(* The vector pipeline, lines 668-760 and 810-1262.                        *)
(***************************************************************************)
\* lines 668-681
makeStrokeJoin(stroke) ==
    LET joins == [MITER |-> "MiterJoin", BEVEL |-> "MiterBevel", ROUND |-> "MiterRound"]
        name == Str(stroke, "strokeJoin")
    IN  IF Has(stroke, "strokeJoin")
        THEN <<Prop("joinStyle", <<"ShapePath.", IF name \in DOMAIN joins THEN joins[name] ELSE "">>)>>
        ELSE <<Prop("joinStyle", <<"ShapePath.", "MiterJoin">>)>>

\* lines 683-710; strokeType is "Normal", "Double" or "OnePix"
makeShapeStroke(obj, strokeType) ==
    LET colorType == IF Str(obj, "type") = "LINE" THEN "fillColor" ELSE "strokeColor"
        strokes == ArrayOf(obj, "strokes")
    IN  (IF Has(obj, "strokes") /\ strokes # <<>>
         THEN makeStrokeJoin(strokes[1])
              \o <<[k |-> "color", n |-> colorType,
                    v |-> toColor(Dbl(Obj(strokes[1], "color"), "r"), Dbl(Obj(strokes[1], "color"), "g"),
                                  Dbl(Obj(strokes[1], "color"), "b"),
                                  Dbl(Obj(strokes[1], "color"), "a")
                                  * (IF Has(strokes[1], "opacity") THEN Dbl(strokes[1], "opacity") ELSE 4))]>>
         ELSE IF ~IsString(obj, "strokes") THEN <<Prop(colorType, <<"transparent">>)>>
         ELSE <<>>)
        \o (IF Has(obj, "strokeWeight")
            THEN <<Num("strokeWidth",
                       IF strokeType = "OnePix" THEN 1
                       ELSE IF strokeType = "Double" THEN 2 * obj["strokeWeight"]
                       ELSE obj["strokeWeight"])>>
            ELSE <<>>)

\* lines 712-733
makeShapeFill(obj) ==
    LET fills == ArrayOf(obj, "fills")
    IN  (IF Str(obj, "type") # "LINE"
         THEN IF Has(obj, "fills") /\ fills # <<>>
              THEN <<[k |-> "color", n |-> "fillColor",
                      v |-> toColor(Dbl(Obj(fills[1], "color"), "r"), Dbl(Obj(fills[1], "color"), "g"),
                                    Dbl(Obj(fills[1], "color"), "b"),
                                    Dbl(Obj(fills[1], "color"), "a")
                                    * (IF Has(fills[1], "opacity") THEN Dbl(fills[1], "opacity") ELSE 4))]>>
              ELSE IF ~IsString(obj, "fills") THEN <<Prop("fillColor", <<"transparent">>)>>
              ELSE <<>>
         ELSE <<Prop("strokeColor", <<"transparent">>)>>)
        \o <<Prop("id", <<"svgpath_">> \o qmlId(Str(obj, "id")))>>

\* lines 745-760
makeSvgPath(index, isFill, obj) ==
    LET array == IF isFill THEN ArrayOf(obj, "fillGeometry") ELSE ArrayOf(obj, "strokeGeometry")
        path == array[index]
    IN  (IF index = 1 /\ Str(path, "windingRule") = "NONZERO"
         THEN <<Prop("fillRule", <<"ShapePath.WindingFill">>)>> ELSE <<>>)
        \o <<Open("PathSvg"), Prop("path", <<Str(path, "path")>>), Close>>

\* lines 845-855
makeShapeFillData(obj) ==
    LET RECURSIVE Paths_(_, _, _)
        Paths_(i, n, isFill) ==
            IF i > n THEN <<>> ELSE makeSvgPath(i, isFill, obj) \o Paths_(i + 1, n, isFill)
    IN  IF ArrayOf(obj, "fillGeometry") # <<>>
        THEN Paths_(1, Len(ArrayOf(obj, "fillGeometry")), TRUE)
        ELSE IF ArrayOf(obj, "strokeGeometry") # <<>>
        THEN Paths_(1, Len(ArrayOf(obj, "strokeGeometry")), FALSE)
        ELSE <<>>

\* lines 858-861
makeAntialising(ctx) ==
    IF "AntializeShapes" \in ctx.flags THEN <<Prop("antialiasing", <<"true">>)>> ELSE <<>>

SourceId(obj) == <<"source_">> \o qmlId(Str(obj, "id"))
MaskSourceId(obj) == <<"maskSource_">> \o qmlId(Str(obj, "id"))
BorderSourceId(obj) == <<"borderSource_">> \o qmlId(Str(obj, "id"))
BorderMaskId(obj) == <<"borderMask_">> \o qmlId(Str(obj, "id"))

\* lines 810-843
makeImageMaskData(ctx, imageRef, obj, sourceId, maskSourceId) ==
    Then(Ok(<<Open("OpacityMask"), Prop("anchors.fill", <<"parent">>), Prop("source", sourceId),
              Prop("maskSource", maskSourceId), Close,
              Open("Image"), Prop("id", sourceId), Prop("layer.enabled", <<"true">>),
              Prop("fillMode", <<"Image.PreserveAspectCrop">>), Prop("visible", <<"false">>),
              Prop("mipmap", <<"true">>), Prop("anchors.fill", <<"parent">>)>>),
    Then(makeImageSource(ctx, imageRef, FALSE, ""),
         Ok(<<Close,
              Open("Shape"), Prop("id", maskSourceId), Prop("anchors.fill", <<"parent">>),
              Prop("layer.enabled", <<"true">>), Prop("visible", <<"false">>),
              Open("ShapePath")>>
            \o makeShapeStroke(obj, "Normal")
            \o <<Prop("fillColor", <<"black">>)>>
            \o makeShapeFillData(obj)
            \o <<Close, Close>>)))

BorderComment(obj) ==
    Comment(<<"QML (SVG) supports only center borders, thus an extra mask is created for ",
              Str(obj, "strokeAlign")>>)

\* the ShapePath of a mask shape: black fill, no stroke
MaskShapePath(obj, strokeWidth) ==
    <<Open("ShapePath"), Prop("fillColor", <<"black">>), Prop("strokeColor", <<"transparent">>),
      Num("strokeWidth", strokeWidth), Prop("joinStyle", <<"ShapePath.", "MiterJoin">>)>>
    \o makeShapeFillData(obj) \o <<Close>>

\* lines 868-882
makeVectorNormalFill(ctx, obj, mparent) ==
    Then(Ok(makeItem(Open("Shape"), obj)),
    Then(makeExtents(ctx, obj, mparent, NoExtents),
         Ok(makeAntialising(ctx)
            \o <<Open("ShapePath")>> \o makeShapeStroke(obj, "Normal") \o makeShapeFill(obj)
            \o makeShapeFillData(obj) \o <<Close>>
            \o <<Close>>)))

\* lines 884-908
makeVectorNormalFillImage(ctx, image, obj, mparent) ==
    Then(Ok(makeItem(Open("Item"), obj)),
    Then(makeExtents(ctx, obj, mparent, NoExtents),
    Then(makeImageMaskData(ctx, image, obj, SourceId(obj), MaskSourceId(obj)),
         Ok(<<Open("Shape"), Prop("anchors.fill", <<"parent">>)>> \o makeAntialising(ctx)
            \o <<Open("ShapePath")>> \o makeShapeStroke(obj, "Normal") \o makeShapeFill(obj)
            \o makeShapeFillData(obj) \o <<Close, Close>>
            \o <<Close>>))))

\* lines 910-913
makeVectorNormal(ctx, obj, mparent) ==
    LET image == imageFill(obj)
    IN  IF image # NoImage THEN makeVectorNormalFillImage(ctx, image.ref, obj, mparent)
        ELSE makeVectorNormalFill(ctx, obj, mparent)

\* the mask shape and the opacity mask that end both inside constructions
InsideMaskAndComposition(ctx, obj) ==
    <<Open("Shape"), Prop("id", BorderMaskId(obj)), Prop("anchors.fill", <<"parent">>)>>
    \o makeAntialising(ctx)
    \o <<Prop("layer.enabled", <<"true">>), Prop("visible", <<"false">>)>>
    \o MaskShapePath(obj, 0) \o <<Close>>
    \o <<Open("OpacityMask"), Prop("anchors.fill", <<"parent">>),
         Prop("source", BorderSourceId(obj)), Prop("maskSource", BorderMaskId(obj)), Close>>
    \o <<Close>>

\* lines 915-969
makeVectorInsideFill(ctx, obj, mparent) ==
    Then(Ok(<<BorderComment(obj)>> \o makeItem(Open("Item"), obj)),
    Then(makeExtents(ctx, obj, mparent, NoExtents),
         Ok(<<Open("Shape"), Prop("id", BorderSourceId(obj)), Prop("anchors.fill", <<"parent">>)>>
            \o makeAntialising(ctx) \o <<Prop("visible", <<"false">>)>>
            \o <<Open("ShapePath")>> \o makeShapeStroke(obj, "Double") \o makeShapeFill(obj)
            \o makeShapeFillData(obj) \o <<Close, Close>>
            \o InsideMaskAndComposition(ctx, obj))))

\* lines 971-1035
makeVectorInsideFillImage(ctx, image, obj, mparent) ==
    Then(Ok(<<BorderComment(obj)>> \o makeItem(Open("Item"), obj)),
    Then(makeExtents(ctx, obj, mparent, NoExtents),
    Then(Ok(<<Open("Item"), Prop("id", BorderSourceId(obj)), Prop("anchors.fill", <<"parent">>)>>
            \o makeAntialising(ctx) \o <<Prop("visible", <<"false">>)>>),
    Then(makeImageMaskData(ctx, image, obj, SourceId(obj), MaskSourceId(obj)),
         Ok(<<Open("Shape"), Prop("anchors.fill", <<"parent">>)>> \o makeAntialising(ctx)
            \o <<Open("ShapePath")>> \o makeShapeStroke(obj, "Double") \o makeShapeFill(obj)
            \o makeShapeFillData(obj) \o <<Close, Close, Close>>
            \o InsideMaskAndComposition(ctx, obj))))))

\* lines 1037-1040
makeVectorInside(ctx, obj, mparent) ==
    LET image == imageFill(obj)
    IN  IF image # NoImage THEN makeVectorInsideFillImage(ctx, image.ref, obj, mparent)
        ELSE makeVectorInsideFill(ctx, obj, mparent)

\* a shape moved in by the border width, with the node's size
InsetShapeHead(ctx, obj, antialiasFirst) ==
    LET borderWidth == Dbl(obj, "strokeWeight")
        at == <<Num("x", borderWidth), Num("y", borderWidth)>>
    IN  <<Open("Shape")>>
        \o (IF antialiasFirst THEN makeAntialising(ctx) \o at \o makeSize(obj)
            ELSE at \o makeSize(obj))

\* the border source, the border mask and the inverted opacity mask that end
\* both outside constructions (lines 1074-1124 and 1167-1216)
OutsideMaskAndComposition(ctx, obj) ==
    LET borderWidth == Dbl(obj, "strokeWeight")
    IN  <<Open("Item"), Prop("id", BorderSourceId(obj)), Prop("anchors.fill", <<"parent">>),
          Prop("visible", <<"false">>)>>
        \o InsetShapeHead(ctx, obj, TRUE)
        \o <<Open("ShapePath"), Prop("fillColor", <<"black">>)>>
        \o makeShapeStroke(obj, "Double") \o makeShapeFillData(obj)
        \o <<Close, Close, Close>>
        \o <<Open("Item"), Prop("id", BorderMaskId(obj)), Prop("anchors.fill", <<"parent">>)>>
        \o makeAntialising(ctx) \o <<Prop("visible", <<"false">>)>>
        \o InsetShapeHead(ctx, obj, FALSE)
        \o MaskShapePath(obj, borderWidth)
        \o <<Close, Close>>
        \o <<Open("OpacityMask"), Prop("anchors.fill", <<"parent">>),
             Prop("maskSource", BorderMaskId(obj)), Prop("source", BorderSourceId(obj)),
             Prop("invert", <<"true">>), Close>>
        \o <<Close>>

OutsideExtents(obj) ==
    LET borderWidth == Dbl(obj, "strokeWeight")
    IN  [x |-> -borderWidth, y |-> -borderWidth, width |-> 2 * borderWidth, height |-> 2 * borderWidth]

\* lines 1042-1127
makeVectorOutsideFill(ctx, obj, mparent) ==
    LET borderWidth == Dbl(obj, "strokeWeight")
    IN  Then(Ok(<<BorderComment(obj)>> \o makeItem(Open("Item"), obj)),
        Then(makeExtents(ctx, obj, mparent, OutsideExtents(obj)),
             Ok(<<Open("Shape"), Num("x", borderWidth), Num("y", borderWidth)>> \o makeSize(obj)
                \o makeAntialising(ctx)
                \o <<Open("ShapePath")>> \o makeShapeFill(obj) \o makeShapeFillData(obj)
                \o <<Num("strokeWidth", 0), Prop("strokeColor", <<"fillColor">>),
                     Prop("joinStyle", <<"ShapePath.", "MiterJoin">>), Close, Close>>
                \o OutsideMaskAndComposition(ctx, obj))))

\* lines 1129-1219
makeVectorOutsideFillImage(ctx, image, obj, mparent) ==
    LET borderWidth == Dbl(obj, "strokeWeight")
    IN  Then(Ok(<<BorderComment(obj)>> \o makeItem(Open("Item"), obj)),
        Then(makeExtents(ctx, obj, mparent, OutsideExtents(obj)),
        Then(Ok(<<Open("Item"), Num("x", borderWidth), Num("y", borderWidth)>> \o makeSize(obj)
                \o makeAntialising(ctx)),
        Then(makeImageMaskData(ctx, image, obj, SourceId(obj), MaskSourceId(obj)),
             Ok(<<Open("Shape"), Prop("anchors.fill", <<"parent">>)>> \o makeAntialising(ctx)
                \o <<Open("ShapePath"), Prop("strokeColor", <<"transparent">>), Num("strokeWidth", 0),
                     Prop("joinStyle", <<"ShapePath.", "MiterJoin">>)>>
                \o makeShapeFill(obj) \o makeShapeFillData(obj)
                \o <<Close, Close, Close>>
                \o OutsideMaskAndComposition(ctx, obj))))))

\* lines 1221-1224
makeVectorOutside(ctx, obj, mparent) ==
    LET image == imageFill(obj)
    IN  IF image # NoImage THEN makeVectorOutsideFillImage(ctx, image.ref, obj, mparent)
        ELSE makeVectorOutsideFill(ctx, obj, mparent)

\* parseVector taking any stroke weight for a border
parseVector_AnyWeight(ctx, obj, mparent) ==
    IF Has(obj, "strokes") /\ ArrayOf(obj, "strokes") # <<>> /\ Str(obj, "strokeAlign") = "INSIDE"
    THEN makeVectorInside(ctx, obj, mparent)
    ELSE IF Has(obj, "strokes") /\ ArrayOf(obj, "strokes") # <<>> /\ Str(obj, "strokeAlign") = "OUTSIDE"
    THEN makeVectorOutside(ctx, obj, mparent)
    ELSE makeVectorNormal(ctx, obj, mparent)

\* lines 1253-1262; parseLine, parsePolygon, parseStar, parseRectangle and
\* parseEllipse (lines 1264-1282) all return parseVector
parseVector(ctx, obj, mparent) ==
    LET hasBorders == /\ Has(obj, "strokes") /\ ArrayOf(obj, "strokes") # <<>>
                      /\ Has(obj, "strokeWeight") /\ obj["strokeWeight"] > 1
    IN  IF hasBorders /\ Str(obj, "strokeAlign") = "INSIDE" THEN makeVectorInside(ctx, obj, mparent)
        ELSE IF hasBorders /\ Str(obj, "strokeAlign") = "OUTSIDE" THEN makeVectorOutside(ctx, obj, mparent)
        ELSE makeVectorNormal(ctx, obj, mparent)

(***************************************************************************)
(* OrderedMap, lines 260-290: the pairs in order of insertion and the      *)
(* index of the last pair inserted for each key.                           *)
(***************************************************************************)
OrderedMapEmpty == [data |-> <<>>, index |-> EmptyObject]

OrderedMapInsert(m, key, value) ==
    [data |-> Append(m.data, [first |-> key, second |-> value]),
     index |-> [x \in DOMAIN m.index \cup {key} |->
                   IF x = key THEN Len(m.data) ELSE m.index[x]]]

\* clear(), lines 285-288
OrderedMapClear(m) == [data |-> <<>>, index |-> EmptyObject]

\* operator[]: positions count from 0 in m_index
OrderedMapAt(m, key) == m.data[m.index[key] + 1].second

OrderedMapKeys(m) == [i \in DOMAIN m.data |-> m.data[i].first]

OrderedMapSize(m) == Cardinality(DOMAIN m.index)

RECURSIVE OrderedMapBytes_Reversed(_, _)
\* the pairs written out last to first
OrderedMapBytes_Reversed(m, i) ==
    IF i > Len(m.data) THEN <<>> ELSE OrderedMapBytes_Reversed(m, i + 1) \o m.data[i].second

RECURSIVE OrderedMapBytes(_, _)
\* for(const auto& [k, bytes] : map) out += bytes, from position i on
OrderedMapBytes(m, i) ==
    IF i > Len(m.data) THEN <<>> ELSE m.data[i].second \o OrderedMapBytes(m, i + 1)

(***************************************************************************)
(* Text, lines 647-666 and 1284-1346.                                      *)
(***************************************************************************)
\* fontWeight with the loop run from the last threshold down, returning the
\* first one the scaled weight reaches
fontWeight_Floor(v) ==
    LET weights == <<[n |-> "Font.Thin", w |-> 0], [n |-> "Font.ExtraLight", w |-> 12],
                     [n |-> "Font.Light", w |-> 25], [n |-> "Font.Normal", w |-> 50],
                     [n |-> "Font.Medium", w |-> 57], [n |-> "Font.DemiBold", w |-> 63],
                     [n |-> "Font.Bold", w |-> 75], [n |-> "Font.ExtraBold", w |-> 81],
                     [n |-> "Font.Black", w |-> 87]>>
        fits == {i \in DOMAIN weights : v - 100 >= 10 * weights[i].w}
    IN  IF fits = {} THEN weights[1].n
        ELSE weights[CHOOSE i \in fits : \A j \in fits : i >= j].n

\* lines 647-666, with (v - 100) / 900 * 90 <= w written over the integers
fontWeight(v) ==
    LET weights == <<[n |-> "Font.Thin", w |-> 0], [n |-> "Font.ExtraLight", w |-> 12],
                     [n |-> "Font.Light", w |-> 25], [n |-> "Font.Normal", w |-> 50],
                     [n |-> "Font.Medium", w |-> 57], [n |-> "Font.DemiBold", w |-> 63],
                     [n |-> "Font.Bold", w |-> 75], [n |-> "Font.ExtraBold", w |-> 81],
                     [n |-> "Font.Black", w |-> 87]>>
        fits == {i \in DOMAIN weights : v - 100 <= 10 * weights[i].w}
    IN  IF fits = {} THEN weights[Len(weights)].n
        ELSE weights[CHOOSE i \in fits : \A j \in fits : i <= j].n

\* QHash::operator[] of a table of strings: the empty string for a missing key
Lookup(table, key) == IF key \in DOMAIN table THEN table[key] ELSE ""

\* lines 1284-1329; mResolveFont is taken to return the family it is given
toQMLTextStyles(obj) ==
    LET capitalization == [UPPER |-> "Font.AllUppercase", LOWER |-> "Font.AllLowercase",
                           TITLE |-> "Font.MixedCase", SMALL_CAPS |-> "Font.SmallCaps",
                           SMALL_CAPS_FORCED |-> "Font.Capitalize"]
        decoration == [STRIKETHROUGH |-> "strikeout", UNDERLINE |-> "underline"]
        hAlign == [LEFT |-> "Text.AlignLeft", RIGHT |-> "Text.AlignRight",
                   CENTER |-> "Text.AlignHCenter", JUSTIFIED |-> "Text.AlignJustify"]
        vAlign == [TOP |-> "Text.AlignTop", BOTTOM |-> "Text.AlignBottom",
                   CENTER |-> "Text.AlignVCenter"]
        s1 == [x \in {"font.family", "font.italic", "font.pixelSize", "font.weight"} |->
                 CASE x = "font.family" -> <<Str(obj, "fontFamily")>>
                   [] x = "font.italic" -> <<IF Bool(obj, "italic") THEN "true" ELSE "false">>
                   [] x = "font.pixelSize" -> <<ToString(Dbl(obj, "fontSize"))>>
                   [] x = "font.weight" -> <<fontWeight(Dbl(obj, "fontWeight"))>>]
        s2 == IF Has(obj, "textCase")
              THEN JsonInsert(s1, "font.capitalization", JValue(<<Lookup(capitalization, obj["textCase"])>>))
              ELSE s1
        s3 == IF Has(obj, "textDecoration")
              THEN JsonInsert(s2, Lookup(decoration, obj["textDecoration"]), JValue(<<"true">>))
              ELSE s2
        s4 == IF Has(obj, "paragraphSpacing")
              THEN JsonInsert(s3, "topPadding", JValue(<<ToString(obj["paragraphSpacing"])>>))
              ELSE s3
        s5 == IF Has(obj, "paragraphIndent")
              THEN JsonInsert(s4, "leftPadding", JValue(<<ToString(obj["paragraphIndent"])>>))
              ELSE s4
        s6 == JsonInsert(s5, "horizontalAlignment", JValue(<<Lookup(hAlign, Str(obj, "textAlignHorizontal"))>>))
        s7 == JsonInsert(s6, "verticalAlignment", JValue(<<Lookup(vAlign, Str(obj, "textAlignVertical"))>>))
    IN  JsonInsert(s7, "font.letterSpacing", JValue(<<ToString(Dbl(obj, "letterSpacing"))>>))

\* the keys toQMLTextStyles can insert, in the order QJsonObject::keys() lists them
StyleKeyOrder ==
    <<"", "font.capitalization", "font.family", "font.italic", "font.letterSpacing",
      "font.pixelSize", "font.weight", "horizontalAlignment", "leftPadding", "strikeout",
      "topPadding", "underline", "verticalAlignment">>

RECURSIVE StyleLines(_, _)
StyleLines(styles, i) ==
    IF i > Len(StyleKeyOrder) THEN <<>>
    ELSE (IF StyleKeyOrder[i] \in DOMAIN styles
          THEN <<Prop(StyleKeyOrder[i], styles[StyleKeyOrder[i]])>> ELSE <<>>)
         \o StyleLines(styles, i + 1)

\* lines 1332-1346
parseStyle(ctx, obj) ==
    LET fills == ArrayOf(obj, "fills")
    IN  Then(Ok(StyleLines(toQMLTextStyles(obj), 1)),
             IF Len(fills) > 0 THEN makeFill(ctx, fills[1]) ELSE Ok(<<>>))

\* lines 1366-1376
parseText(ctx, obj, mparent) ==
    Then(Ok(makeItem(Open("Text"), obj)),
    Then(makeVector(ctx, obj, mparent),
    Then(Ok(<<Prop("wrapMode", <<"TextEdit.WordWrap">>), Prop("text", <<Str(obj, "characters")>>)>>),
    Then(parseStyle(ctx, Obj(obj, "style")),
         Ok(<<Close>>)))))

\* a slice refused as a node that is not supported
parseSlice_Refused(obj) == Err("Non supported object type")

\* lines 1378-1382
parseSlice(obj) == Ok(<<>>)

(***************************************************************************)
(* Pre-rendering, lines 1674-1729.                                         *)
(***************************************************************************)
Max(a, b) == IF a >= b THEN a ELSE b

RECURSIVE getSize(_)
\* lines 1674-1687
getSize(obj) ==
    LET rect == Obj(obj, "absoluteBoundingBox")
        RECURSIVE Expand(_, _)
        Expand(sz, i) ==
            IF i > Len(Arr(obj, "children")) THEN sz
            ELSE LET c == getSize(obj["children"][i])
                 IN  Expand([width |-> Max(sz.width, c.width), height |-> Max(sz.height, c.height)], i + 1)
    IN  Expand([width |-> Dbl(rect, "width"), height |-> Dbl(rect, "height")], 1)

\* lines 1690-1729
parseRendered(ctx, obj, mparent) ==
    LET prect == Obj(mparent, "absoluteBoundingBox")
        rect == Obj(obj, "absoluteBoundingBox")
        rsect == getSize(obj)
        imageId == <<"i_">> \o qmlId(Str(obj, "id"))
        invisible == Has(obj, "visible") /\ ~Bool(obj, "visible")
    IN  Then(Ok(makeComponentInstance(Open("Item"), obj)
                \o <<Num("x", Dbl(rect, "x") - Dbl(prect, "x")),
                     Num("y", Dbl(rect, "y") - Dbl(prect, "y")),
                     Num("width", rsect.width), Num("height", rsect.height)>>),
        Then(IF ~invisible
             THEN Then(Ok(<<Open("Image"), Prop("id", imageId), Prop("anchors.centerIn", <<"parent">>),
                            Prop("mipmap", <<"true">>), Prop("fillMode", <<"Image.PreserveAspectFit">>)>>),
                  Then(makeImageSource(ctx, Str(obj, "id"), TRUE, PlaceHolder),
                       Ok(<<Close>>)))
             ELSE Ok(<<>>),
             Ok(<<Close>>)))

(***************************************************************************)
(* The recursive descent: parse and the emitters that call it.             *)
(***************************************************************************)
RECURSIVE parse(_, _, _)
RECURSIVE ChildrenLoop(_, _, _, _)

\* lines 1397-1401 (the id's characters are not rewritten)
delegateName(id) == <<"delegate_", id>>

\* the lines opening a mask group up to the mask child (lines 1861-1872)
MaskHead(child) ==
    LET maskSourceId == <<"mask_">> \o qmlId(Str(child, "id"))
        sourceId == <<"source_">> \o qmlId(Str(child, "id"))
    IN  <<Open("Item"), Prop("anchors.fill", <<"parent">>),
          Open("OpacityMask"), Prop("anchors.fill", <<"parent">>), Prop("source", sourceId),
          Prop("maskSource", maskSourceId), Close,
          Open("Item"), Prop("id", maskSourceId), Prop("anchors.fill", <<"parent">>)>>

\* the lines after the mask child, which leave the source Item open (lines 1874-1879)
MaskTail(child) ==
    <<Prop("visible", <<"false">>), Close,
      Open("Item"), Prop("id", <<"source_">> \o qmlId(Str(child, "id"))),
      Prop("anchors.fill", <<"parent">>), Prop("visible", <<"false">>)>>

\* the loop of lines 1856-1885 from child i on; st = [r, items, hasMask], where
\* r.out is the local buffer out; m_parent is obj for every child
ChildrenLoop(ctx, obj, i, st) ==
    IF i > Len(obj["children"]) \/ ~st.r.ok THEN st
    ELSE LET child == obj["children"][i]
             isMask == Has(child, "isMask") /\ Bool(child, "isMask")
             p == parse(ctx, child, obj)
         IN  IF isMask
             THEN ChildrenLoop(ctx, obj, i + 1,
                      [r |-> Then(st.r, Then(Ok(MaskHead(child)), Then(p, Ok(MaskTail(child))))),
                       items |-> st.items, hasMask |-> TRUE])
             ELSE ChildrenLoop(ctx, obj, i + 1,
                      [r |-> Then(st.r, [p EXCEPT !.out = <<>>]),
                       items |-> IF p.ok THEN OrderedMapInsert(st.items, Str(child, "id"), p.out)
                                 ELSE st.items,
                       hasMask |-> st.hasMask])

\* lines 1852-1894, the body between the save and the restore of m_parent:
\* [r, items]; r carries the ids, log, trace and failure of the children
\* parsed, items is the OrderedMap returned
ChildrenItems(ctx, obj) ==
    IF ~Has(obj, "children") THEN [r |-> Ok(<<>>), items |-> OrderedMapEmpty]
    ELSE LET st == ChildrenLoop(ctx, obj, 1, [r |-> Ok(<<>>), items |-> OrderedMapEmpty, hasMask |-> FALSE])
         IN  IF st.r.ok /\ st.hasMask
             THEN [r |-> [st.r EXCEPT !.out = <<>>],
                   items |-> OrderedMapInsert(OrderedMapEmpty, "maskedItem",
                                 st.r.out \o OrderedMapBytes(st.items, 1) \o <<Close, Close>>)]
             ELSE [r |-> [st.r EXCEPT !.out = <<>>], items |-> st.items]

\* the return of parseChildrenItems (lines 1896-1897) after the body c: when
\* the body threw nothing, m_parent is assigned `after` and the return is
\* recorded with what m_parent was at line 1851
Traversal(c, obj, before, after) ==
    IF ~c.r.ok THEN c
    ELSE [r |-> [c.r EXCEPT !.frames = @ \cup {[node |-> Str(obj, "id"), before |-> Str(before, "id"),
                                                after |-> Str(after, "id")]}],
          items |-> c.items]

\* parseChildrenItems without line 1896: m_parent stays what the loop made it
parseChildrenItems_NoRestore(ctx, obj, mparent) ==
    Traversal(ChildrenItems(ctx, obj), obj, mparent,
              IF Has(obj, "children") /\ Len(obj["children"]) > 0 THEN obj ELSE mparent)

\* lines 1849-1898: `parent` is m_parent at line 1851, and line 1896 assigns it back
parseChildrenItems(ctx, obj, mparent) ==
    LET parent == mparent
    IN  Traversal(ChildrenItems(ctx, obj), obj, parent, parent)

\* lines 1842-1847
parseChildren(ctx, obj, mparent) ==
    LET c == parseChildrenItems(ctx, obj, mparent)
    IN  Then(c.r, Ok(OrderedMapBytes(c.items, 1)))

\* lines 735-743
makePlainItem(ctx, obj, mparent) ==
    Then(Ok(makeItem(Open("Rectangle"), obj)),
    Then(makeFill(ctx, obj),
    Then(makeExtents(ctx, obj, mparent, NoExtents),
    Then(parseChildren(ctx, obj, mparent),
         Ok(<<Close>>)))))

\* the head shared by parseFrame and parseComponent: lines 1385-1391 and 1406-1412
FrameHead(ctx, obj, mparent) ==
    Then(Ok(makeItem(Open("Rectangle"), obj)),
    Then(makeVector(ctx, obj, mparent),
         Ok((IF Has(obj, "cornerRadius") THEN <<Num("radius", obj["cornerRadius"])>> ELSE <<>>)
            \o <<Prop("clip", <<IF Bool(obj, "clipsContent") THEN "true" ELSE "false">>)>>)))

\* lines 1384-1395; parseGroup (lines 1454-1456) returns parseFrame
parseFrame(ctx, obj, mparent) ==
    Then(FrameHead(ctx, obj, mparent),
    Then(parseChildren(ctx, obj, mparent),
         Ok(<<Close>>)))

\* the lines of parseComponent for one delegate (lines 1415-1427 and 1433-1444):
\* the property holding the child's markup, then the forwarding properties
DelegateProperties(id, bytes) ==
    <<[k |-> "property", n |-> id]>> \o bytes
    \o <<Prop("property Item", <<"i_">> \o id), Prop("property matrix4x4", id \o <<"_transform">>),
         Prop("property real", id \o <<"_x">>), Prop("property real", id \o <<"_y">>),
         Prop("property real", id \o <<"_width">>), Prop("property real", id \o <<"_height">>)>>

RECURSIVE DelegateLines(_, _, _)
DelegateLines(children, keys, i) ==
    IF i > Len(keys) THEN <<>>
    ELSE DelegateProperties(delegateName(keys[i]), OrderedMapAt(children, keys[i]))
         \o DelegateLines(children, keys, i + 1)

RECURSIVE CreateLines(_, _)
CreateLines(keys, i) ==
    IF i > Len(keys) THEN <<>>
    ELSE <<Prop("createObject", delegateName(keys[i]))>> \o CreateLines(keys, i + 1)

\* key.split(';').last() for the ids of the model that hold a ';'
LastSegment(key) ==
    CASE key = "I9;c1" -> "c1"
      [] key = "I9;c2" -> "c2"
      [] key = "I9;c3" -> "c3"
      [] OTHER -> key

\* Q_ASSERT(keyit != keys.end()) failing, line 1748
AssertFailed == Err("Q_ASSERT")

\* lines 1759-1761: the delta of the instance's child against the canonical one
OverrideDelta(ctx, objChild, cchild) ==
    delta(objChild, cchild, {"absoluteBoundingBox", "name", "id"},
          [x \in {"children"} |->
              IF type(objChild) = "Boolean" /\ "BreakBooleans" \notin ctx.flags
              THEN "null" ELSE "ifDiffer"])

\* "<delegate>_<property>: <x>" (lines 1776-1783) and "<delegate>_transform: " or
\* "<delegate>:" (lines 1774 and 1787), which the markup written next belongs to
Bind(delegateId, property, x) == [k |-> "bind", slot |-> delegateId, p |-> property, x |-> x]
Override(delegateId, property) == [k |-> "override", slot |-> delegateId, p |-> property]

\* OverrideLines writing the child's markup for every delta that is not empty
OverrideLines_AlwaysFull(id, objChild, deltaObject, bytes) ==
    IF DOMAIN deltaObject = {} THEN <<>> ELSE <<Override(delegateName(id), "")>> \o bytes

\* lines 1765-1787: what is written for one canonical child, given the delta
\* and the markup of the instance's child
OverrideLines(id, objChild, deltaObject, bytes) ==
    IF DOMAIN deltaObject = {} THEN <<>>
    ELSE IF DOMAIN deltaObject \in {{"relativeTransform", "size"}, {"relativeTransform"}, {"size"}}
    THEN (IF "relativeTransform" \in DOMAIN deltaObject
          THEN (IF makeTransforms(objChild) # <<>>
                THEN <<Override(delegateName(id), "transform")>> \o makeTransforms(objChild)
                ELSE <<>>)
               \o <<Bind(delegateName(id), "x", position(objChild).x),
                    Bind(delegateName(id), "y", position(objChild).y)>>
          ELSE <<>>)
         \o (IF "size" \in DOMAIN deltaObject
             THEN <<Bind(delegateName(id), "width", Dbl(deltaObject["size"], "x")),
                    Bind(delegateName(id), "height", Dbl(deltaObject["size"], "y"))>>
             ELSE <<>>)
    ELSE <<Override(delegateName(id), "")>> \o bytes

RECURSIVE InstanceLoop(_, _, _, _, _)
\* the loop of lines 1745-1792 from canonical child i on
InstanceLoop(ctx, obj, compChildren, children, i) ==
    IF i > Len(compChildren) THEN Ok(<<>>)
    ELSE LET cchild == compChildren[i]
             id == Str(cchild, "id")
             keys == OrderedMapKeys(children)
             matches == {j \in DOMAIN keys : LastSegment(keys[j]) = id}
         IN  IF matches = {} THEN AssertFailed
             ELSE LET index == CHOOSE j \in matches : \A j2 \in matches : j <= j2
                      objChildren == Arr(obj, "children")
                      objChild == IF index <= Len(objChildren) THEN objChildren[index] ELSE EmptyObject
                  IN  Then(Ok(OverrideLines(id, objChild, OverrideDelta(ctx, objChild, cchild),
                                            OrderedMapAt(children, keys[index]))),
                           InstanceLoop(ctx, obj, compChildren, children, i + 1))

\* makeInstanceChildren without the test of line 1736: the children are
\* diffed whatever the counts
makeInstanceChildren_AlwaysDiff(ctx, obj, comp, mparent) ==
    LET c == parseChildrenItems(ctx, obj, mparent)
    IN  IF ~c.r.ok THEN c.r
        ELSE Then(c.r, InstanceLoop(ctx, obj, Arr(comp, "children"), c.items, 1))

\* lines 1731-1794
makeInstanceChildren(ctx, obj, comp, mparent) ==
    LET compChildren == Arr(comp, "children")
        c == parseChildrenItems(ctx, obj, mparent)
    IN  IF ~c.r.ok THEN c.r
        ELSE IF Len(compChildren) # OrderedMapSize(c.items)
        THEN Then(c.r, Ok(OrderedMapBytes(c.items, 1)))
        ELSE Then(c.r, InstanceLoop(ctx, obj, compChildren, c.items, 1))

\* lines 1815-1839: the component is taken from the catalogue and the instance
\* emitted against it
InstanceBody(ctx, obj, mparent, componentId) ==
    LET isInstance == type(obj) = "Instance"
        comp == ctx.components[componentId]
        d == delta(obj, comp.object, {"children"}, EmptyObject)
        d1 == IF Has(obj, "fills") /\ ~Has(d, "fills")
              THEN InsertEmptyString(d, "fills") ELSE d
        instanceObject == IF Has(obj, "strokes") /\ ~Has(d1, "strokes")
                          THEN InsertEmptyString(d1, "strokes") ELSE d1
        body == IF ~isInstance
                THEN Ok(makeComponentInstance(OpenComponent(comp.name), obj))
                ELSE Then(Ok(makeItem(OpenComponent(comp.name), instanceObject)),
                     Then(makeVector(ctx, instanceObject, mparent),
                          makeInstanceChildren(ctx, obj, comp.object, mparent)))
    IN  Then([Ok(<<>>) EXCEPT !.ids = {componentId},
                              !.derefs = {Deref(componentId, "parseInstance")}],
             Then(body, Ok(<<Close>>)))

\* the id parseInstance looks up: line 1808
ComponentIdOf(obj) ==
    IF type(obj) = "Instance" THEN Str(obj, "componentId") ELSE Str(obj, "id")

\* parseInstance without the test of line 1811: the catalogue is dereferenced
\* for whatever id the node names
parseInstance_Unchecked(ctx, obj, mparent) ==
    IF ComponentIdOf(obj) \notin DOMAIN ctx.components
    THEN [Ok(<<>>) EXCEPT !.ids = {ComponentIdOf(obj)},
                          !.derefs = {Deref(ComponentIdOf(obj), "parseInstance")}]
    ELSE InstanceBody(ctx, obj, mparent, ComponentIdOf(obj))

\* lines 1805-1840
parseInstance(ctx, obj, mparent) ==
    IF ComponentIdOf(obj) \notin DOMAIN ctx.components
    THEN [Err("Unexpected component dependency") EXCEPT !.ids = {ComponentIdOf(obj)}]
    ELSE InstanceBody(ctx, obj, mparent, ComponentIdOf(obj))

\* lines 1404-1452
parseComponent(ctx, obj, mparent) ==
    IF "ParseComponent" \notin ctx.flags THEN parseInstance(ctx, obj, mparent)
    ELSE LET c == parseChildrenItems(ctx, obj, mparent)
             keys == OrderedMapKeys(c.items)
         IN  Then(FrameHead(ctx, obj, mparent),
             Then(c.r,
                  Ok(DelegateLines(c.items, keys, 1)
                     \o <<Open("Component.onCompleted:")>> \o CreateLines(keys, 1) \o <<Close>>
                     \o <<Close>>)))

\* the fill of the source rectangle of a boolean composition (lines 1478-1483,
\* 1511-1516, 1552-1557 and 1586-1591)
BooleanFill(ctx, obj) ==
    LET fills == ArrayOf(obj, "fills")
    IN  IF Len(fills) > 0 THEN makeFill(ctx, fills[1])
        ELSE IF ~IsString(obj, "fills") THEN Ok(<<Prop("color", <<"transparent">>)>>)
        ELSE Ok(<<>>)

RECURSIVE ParseFrom_Twice(_, _, _, _)
\* the loop parsing every child twice
ParseFrom_Twice(ctx, children, i, mparent) ==
    IF i > Len(children) THEN Ok(<<>>)
    ELSE Then(parse(ctx, children[i], mparent),
         Then(parse(ctx, children[i], mparent), ParseFrom_Twice(ctx, children, i + 1, mparent)))

RECURSIVE ParseFrom(_, _, _, _)
\* for(int i = from; i < children.size(); i++) out += parse(children[i]), lines 1537-1538;
\* m_parent is not touched
ParseFrom(ctx, children, i, mparent) ==
    IF i > Len(children) THEN Ok(<<>>)
    ELSE Then(parse(ctx, children[i], mparent), ParseFrom(ctx, children, i + 1, mparent))

RECURSIVE IntersectLoop(_, _, _, _, _, _)
\* lines 1565-1581; i counts from 0 as in the code
IntersectLoop(ctx, obj, children, i, mparent, nextSourceId) ==
    LET sourceId == SourceId(obj)
        maskId == MaskSourceId(obj) \o <<"_", ToString(i)>>
        next == sourceId \o <<"_", ToString(i)>>
    IN  IF i >= Len(children) THEN Ok(<<>>)
        ELSE Then(Ok(<<Open("Item"), Prop("anchors.fill", <<"parent">>), Prop("visible", <<"false">>)>>),
             Then(parse(ctx, children[i + 1], mparent),
             Then(Ok(<<Prop("id", maskId), Close,
                       Open("OpacityMask"), Prop("anchors.fill", sourceId), Prop("source", nextSourceId),
                       Prop("maskSource", maskId), Prop("id", next)>>
                     \o (IF i < Len(children) - 1 THEN <<Prop("visible", <<"false">>)>> ELSE <<>>)
                     \o <<Close>>),
                  IntersectLoop(ctx, obj, children, i + 1, mparent, next))))

RECURSIVE ExcludeLoop(_, _, _, _, _, _)
\* lines 1626-1656; nextSourceId = <<>> is the empty QString
ExcludeLoop(ctx, obj, children, i, mparent, nextSourceId) ==
    LET sourceId == SourceId(obj)
        maskId == MaskSourceId(obj) \o <<"_", ToString(i)>>
        next == sourceId \o <<"_", ToString(i)>>
    IN  IF i >= Len(children) THEN Ok(<<>>)
        ELSE Then(Ok(<<Open("Item"), Prop("visible", <<"false">>), Prop("anchors.fill", <<"parent">>)>>),
             Then(parse(ctx, children[i + 1], mparent),
             Then(Ok(<<Prop("layer.enabled", <<"true">>), Prop("id", maskId), Close,
                       Open("ShaderEffect"), Prop("anchors.fill", <<"parent">>),
                       Prop("layer.enabled", <<"true">>), Prop("property var colorSource", sourceId)>>
                     \o (IF nextSourceId # <<>>
                         THEN <<Open("property var prevMask: ShaderEffectSource"),
                                Prop("sourceItem", nextSourceId), Close>>
                         ELSE <<>>)
                     \o <<Prop("property var currentMask", maskId),
                          Prop("fragmentShader",
                               sourceId \o <<IF nextSourceId = <<>> THEN ".shaderSource0" ELSE ".shaderSource">>)>>
                     \o (IF i < Len(children) - 1
                         THEN <<Prop("visible", <<"false">>), Prop("id", next)>> ELSE <<>>)
                     \o <<Close>>),
                  ExcludeLoop(ctx, obj, children, i + 1, mparent, next))))

\* a boolean operation written as a vector whatever the flags
parseBooleanOperation_Vector(ctx, obj, mparent) == parseVector(ctx, obj, mparent)

\* lines 1457-1672
parseBooleanOperation(ctx, obj, mparent) ==
    LET children == Arr(obj, "children")
        operation == Str(obj, "booleanOperation")
        sourceId == SourceId(obj)
        maskSourceId == MaskSourceId(obj)
        head == Then(Ok(makeItem(Open("Item"), obj)), makeExtents(ctx, obj, mparent, NoExtents))
        sourceRectangle ==
            Then(Ok(<<Open("Rectangle"), Prop("id", sourceId), Prop("anchors.fill", <<"parent">>)>>),
                 BooleanFill(ctx, obj))
        mask(anchor, source, maskSource, invert) ==
            <<Open("OpacityMask"), Prop("anchors.fill", anchor), Prop("source", source),
              Prop("maskSource", maskSource)>>
            \o (IF invert THEN <<Prop("invert", <<"true">>)>> ELSE <<>>) \o <<Close>>
    IN  IF "BreakBooleans" \notin ctx.flags THEN parseVector(ctx, obj, mparent)
        ELSE IF Len(children) < 2 THEN Err("Boolean needs at least two elemetns")
        ELSE IF operation = "UNION"
        THEN Then(head,
             Then(sourceRectangle,
             Then(Ok(<<Prop("visible", <<"false">>), Close,
                       Open("Item"), Prop("anchors.fill", <<"parent">>), Prop("visible", <<"false">>),
                       Prop("id", maskSourceId)>>),
             Then(parseChildren(ctx, obj, mparent),
                  Ok(<<Close>> \o mask(sourceId, sourceId, maskSourceId, FALSE) \o <<Close>>)))))
        ELSE IF operation = "SUBTRACT"
        THEN Then(head,
             Then(Ok(<<Open("Item"), Prop("anchors.fill", <<"parent">>), Prop("visible", <<"false">>),
                       Prop("id", sourceId \o <<"_subtract">>),
                       Open("Rectangle"), Prop("id", sourceId), Prop("anchors.fill", <<"parent">>),
                       Prop("visible", <<"false">>)>>),
             Then(BooleanFill(ctx, obj),
             Then(Ok(<<Close, Open("Item"), Prop("anchors.fill", <<"parent">>),
                       Prop("visible", <<"false">>), Prop("id", maskSourceId)>>),
             Then(parse(ctx, children[1], mparent),
             Then(Ok(<<Close>> \o mask(sourceId, sourceId, maskSourceId, FALSE) \o <<Close>>
                     \o <<Open("Item"), Prop("anchors.fill", <<"parent">>), Prop("visible", <<"false">>),
                          Prop("id", maskSourceId \o <<"_subtract">>)>>),
             Then(ParseFrom(ctx, children, 2, mparent),
                  Ok(<<Close>>
                     \o mask(sourceId \o <<"_subtract">>, sourceId \o <<"_subtract">>,
                             maskSourceId \o <<"_subtract">>, TRUE)
                     \o <<Close>>))))))))
        ELSE IF operation = "INTERSECT"
        THEN Then(head,
             Then(sourceRectangle,
             Then(Ok(<<Prop("visible", <<"false">>), Close>>),
             Then(IntersectLoop(ctx, obj, children, 0, mparent, sourceId),
                  Ok(<<Close>>)))))
        ELSE IF operation = "EXCLUDE"
        THEN Then(head,
             Then(sourceRectangle,
             Then(Ok(<<Prop("visible", <<"false">>), Prop("layer.enabled", <<"true">>),
                       Prop("readonly property string shaderSource", <<"exclusive or of the masks">>),
                       Prop("readonly property string shaderSource0", <<"the current mask">>),
                       Close>>),
             Then(ExcludeLoop(ctx, obj, children, 0, mparent, <<>>),
                  Ok(<<Close>>)))))
        ELSE Ok(<<>>)

\* parse asking isRendering before it looks the type up
parseBranch_RenderingFirst(flags, obj) ==
    IF isRendering(flags, obj) THEN "rendered"
    ELSE IF Str(obj, "type") \notin KnownTypes THEN "unsupported"
    ELSE "live"

\* the branch parse takes, lines 780-785
parseBranch(flags, obj) ==
    IF Str(obj, "type") \notin KnownTypes THEN "unsupported"
    ELSE IF isRendering(flags, obj) THEN "rendered"
    ELSE "live"

\* lines 762-786; the trace entry names the node, the m_parent slot and the branch taken
parse(ctx, obj, mparent) ==
    LET t == Str(obj, "type")
        branch == parseBranch(ctx.flags, obj)
        entry == [id |-> Str(obj, "id"), parent |-> Str(mparent, "id"), branch |-> branch]
        r == IF branch = "unsupported" THEN Err("Non supported object type")
             ELSE IF branch = "rendered" THEN parseRendered(ctx, obj, mparent)
             ELSE CASE parsers[t] \in {"parseRectangle", "parseEllipse", "parseVector", "parseLine",
                                       "parsePolygon", "parseStar"} -> parseVector(ctx, obj, mparent)
                    [] parsers[t] = "parseText" -> parseText(ctx, obj, mparent)
                    [] parsers[t] = "parseComponent" -> parseComponent(ctx, obj, mparent)
                    [] parsers[t] = "parseBooleanOperation" -> parseBooleanOperation(ctx, obj, mparent)
                    [] parsers[t] = "parseInstance" -> parseInstance(ctx, obj, mparent)
                    [] parsers[t] \in {"parseGroup", "parseFrame"} -> parseFrame(ctx, obj, mparent)
                    [] parsers[t] = "parseSlice" -> parseSlice(obj)
                    [] parsers[t] = "makePlainItem" -> makePlainItem(ctx, obj, mparent)
    IN  [r EXCEPT !.trace = <<entry>> \o @]

(***************************************************************************)
(* The entry points element() and component(), lines 208-226 and 345-355.  *)
(***************************************************************************)
\* Element(), line 69
DefaultElement == [name |-> <<>>, id |-> "", type |-> "", data |-> <<>>, components |-> {}]

\* the Element getElement builds from what parse returned (lines 348-354)
MakeElement(obj, r) ==
    [r |-> r,
     element |-> [name |-> validFileName(IF Has(obj, "name") THEN obj["name"] ELSE <<>>),
                  id |-> Str(obj, "id"), type |-> Str(obj, "type"),
                  data |-> r.out, components |-> r.ids]]

\* lines 345-355: the result of parse and, when parse returns, the Element built
getElement(ctx, obj) == MakeElement(obj, parse(ctx, obj, obj))

\* the try block handing back what had been built when the exception was thrown
Caught_KeepPartial(g) ==
    [element |-> g.element,
     errs |-> IF g.r.ok THEN <<>> ELSE <<[what |-> g.r.what, isFatal |-> TRUE]>>,
     log |-> g.r.log, trace |-> g.r.trace, derefs |-> g.r.derefs, frames |-> g.r.frames,
     aborted |-> g.r.what = AssertFailed.what]

\* catch(Exception e) { err(e.what(), true); } return Element(); (lines 212-215 and
\* 222-225) applied to what getElement did; a failed Q_ASSERT is no Exception and
\* ends the process
Caught(g) ==
    [element |-> IF g.r.ok THEN g.element ELSE DefaultElement,
     errs |-> IF g.r.ok \/ g.r.what = AssertFailed.what THEN <<>>
              ELSE <<[what |-> g.r.what, isFatal |-> TRUE]>>,
     log |-> g.r.log, trace |-> g.r.trace, derefs |-> g.r.derefs, frames |-> g.r.frames,
     aborted |-> g.r.what = AssertFailed.what]

\* try { return p.getElement(obj); } catch ... (lines 210-215 and 220-225)
transpile(ctx, obj) == Caught(getElement(ctx, obj))

\* lines 218-226
element(obj, flags, data, components_) ==
    transpile([flags |-> flags, noImage |-> data, components |-> components_], obj)

\* lines 208-216
component(obj, flags, data, components_) ==
    transpile([flags |-> flags \cup {"ParseComponent"}, noImage |-> data, components |-> components_], obj)

\* what the caller is left with.  A failed Q_ASSERT ends the process where
\* assertions are compiled in; where they are not (QT_NO_DEBUG) line 1791 reads
\* through the past-the-end iterator and what follows is undefined.
Return(r) ==
    /\ ret' = IF r.aborted THEN NoRet ELSE r.element
    /\ errs' = r.errs
    /\ cbLog' = r.log
    /\ parsed' = r.trace
    /\ lookups' = r.derefs
    /\ traversals' = r.frames
    /\ pc' \in IF r.aborted THEN {"aborted", "undefined"} ELSE {"done"}
    /\ UNCHANGED call

Element ==
    /\ pc = "call"
    /\ call.fn = "element"
    /\ Return(element(call.obj, call.flags, call.data, call.components))

Component ==
    /\ pc = "call"
    /\ call.fn = "component"
    /\ Return(component(call.obj, call.flags, call.data, call.components))

Next == Element \/ Component

(***************************************************************************)
(* Specification Spec: element() and component() on                        *)
(*   - one top-level node of every type string, with or without a gradient *)
(*     fill, the isRendering flag and visible: false, under every          *)
(*     combination of the prerender options;                               *)
(*   - one rectangle or line with stroke entries, weight and alignment;     *)
(*   - a tree: a root of one of RootKinds with up to MaxChildren children  *)
(*     of ChildKinds, with and without BreakBooleans;                      *)
(*   - an instance of c:1 with up to MaxChildren children of OverrideKinds; *)
(*   - a rectangle of some size and fill colour;                            *)
(* with an image provider that has every image, none but the placeholder,  *)
(* or none at all, and a catalogue holding the component c:1.              *)
(***************************************************************************)
MaxChildren == 2

Merge(a, b) == [k \in DOMAIN a \cup DOMAIN b |-> IF k \in DOMAIN b THEN b[k] ELSE a[k]]

Base(id, t) ==
    [id |-> id, name |-> <<"N">>, type |-> t,
     absoluteBoundingBox |-> [x |-> 10, y |-> 20, width |-> 4, height |-> 3],
     size |-> [x |-> 4, y |-> 3],
     relativeTransform |-> <<<<1, 0, 1>>, <<0, 1, 2>>>>]

\* colour channels in quarters: opaque red
Solid == [type |-> "SOLID", color |-> [r |-> 4, g |-> 0, b |-> 0, a |-> 4]]
Gradient == [type |-> "GRADIENT_LINEAR", gradientHandlePositions |-> <<[x |-> 0, y |-> 0]>>]
ImageFill == [type |-> "IMAGE", imageRef |-> "img1"]

TextFields == [characters |-> "abc", style |-> [fontFamily |-> "Arial", fontSize |-> 12, fontWeight |-> 400]]

\* the component c:1 of the catalogue: two rectangles c1 and c2
ComponentObject ==
    Merge(Base("c:1", "COMPONENT"),
          [fills |-> <<Solid>>,
           children |-> <<Merge(Base("c1", "RECTANGLE"), [fills |-> <<Solid>>]),
                          Merge(Base("c2", "RECTANGLE"), [fills |-> <<Solid>>])>>])

Catalogue == [k \in {"c:1"} |-> [name |-> validFileName(<<"C">>), object |-> ComponentObject]]

AllTypes == KnownTypes \cup {"UNKNOWN_TYPE", "CANVAS", "rectangle", ""}

PrerenderFlags == {"PrerenderShapes", "PrerenderGroups", "PrerenderComponents",
                   "PrerenderFrames", "PrerenderInstances"}

TopNode(t, gradient, flagged, visible) ==
    Merge(Merge(Merge(Merge(Merge(
        Base(IF t = "COMPONENT" THEN "c:1" ELSE "1:1", t),
        [fills |-> IF gradient THEN <<Gradient>> ELSE <<Solid>>]),
        IF flagged THEN [isRendering |-> TRUE] ELSE EmptyObject),
        IF visible THEN EmptyObject ELSE [visible |-> FALSE]),
        IF t = "INSTANCE" THEN [componentId |-> "c:1"] ELSE EmptyObject),
        IF t = "TEXT" THEN TextFields ELSE EmptyObject)

TopNodes == {TopNode(t, g, f, v) : t \in AllTypes, g \in BOOLEAN, f \in BOOLEAN, v \in BOOLEAN}

\* a rectangle or a line with or without stroke entries, a stroke weight and
\* an alignment, filled with a colour or an image
Stroke == [type |-> "SOLID", color |-> [r |-> 0, g |-> 0, b |-> 4, a |-> 4]]

StrokeChoices == {EmptyObject, [strokes |-> <<>>], [strokes |-> <<Stroke>>]}
WeightChoices == {EmptyObject, [strokeWeight |-> 1], [strokeWeight |-> 2]}
AlignChoices == {[strokeAlign |-> a] : a \in {"INSIDE", "OUTSIDE", "CENTER"}}
Geometry == [fillGeometry |-> <<[path |-> "M 0 0 L 4 0 L 4 3 Z", windingRule |-> "NONZERO"]>>]

StrokedNodes ==
    {Merge(Merge(Merge(Merge(Merge(Base("1:1", t), Geometry), [fills |-> <<f>>]), st), w), al) :
        t \in {"RECTANGLE", "LINE"}, f \in {Solid, ImageFill},
        st \in StrokeChoices, w \in WeightChoices, al \in AlignChoices}

ChildIds == <<"n1", "n2", "n3">>
InstanceChildIds == <<"I9;c1", "I9;c2", "I9;c3">>
GrandChildIds == <<"n1.1", "n2.1", "n3.1">>
SecondGrandChildIds == <<"n1.2", "n2.2", "n3.2">>

ChildKinds == {"RECT", "MASK", "IMAGE", "RENDERED", "TEXT", "FRAME", "INSTANCE", "DANGLING",
               "BOOLEAN", "UNKNOWN", "UNKNOWN_RENDERED", "SLICE", "COMPONENT", "XOR"}

\* centred in its parent and moved from where the component has it
Centred ==
    [constraints |-> [horizontal |-> "CENTER", vertical |-> "CENTER"],
     relativeTransform |-> <<<<1, 0, 5>>, <<0, 1, 2>>>>]

Child(kind, id, i) ==
    CASE kind = "RECT" -> Merge(Base(id, "RECTANGLE"), [fills |-> <<Solid>>])
      [] kind = "MASK" -> Merge(Base(id, "ELLIPSE"), [fills |-> <<Solid>>, isMask |-> TRUE])
      [] kind = "IMAGE" -> Merge(Base(id, "RECTANGLE"), [fills |-> <<ImageFill>>])
      [] kind = "RENDERED" -> Merge(Base(id, "VECTOR"), [fills |-> <<Solid>>, isRendering |-> TRUE])
      [] kind = "TEXT" -> Merge(Base(id, "TEXT"), TextFields)
      [] kind = "FRAME" ->
            Merge(Base(id, "FRAME"),
                  [children |-> <<Merge(Base(GrandChildIds[i], "RECTANGLE"), [fills |-> <<Solid>>])>>])
      [] kind = "INSTANCE" -> Merge(Base(id, "INSTANCE"), Merge(Centred, [componentId |-> "c:1"]))
      [] kind = "DANGLING" -> Merge(Base(id, "INSTANCE"), Merge(Centred, [componentId |-> "c:9"]))
      [] kind = "COMPONENT" -> Merge(Base(id, "COMPONENT"), [fills |-> <<Solid>>])
      [] kind = "BOOLEAN" -> Merge(Base(id, "BOOLEAN_OPERATION"), [booleanOperation |-> "UNION"])
      [] kind = "UNKNOWN" -> Base(id, "UNKNOWN_TYPE")
      [] kind = "UNKNOWN_RENDERED" -> Merge(Base(id, "UNKNOWN_TYPE"), [isRendering |-> TRUE])
      [] kind = "SLICE" -> Base(id, "SLICE")
      [] kind = "XOR" ->
            Merge(Base(id, "BOOLEAN_OPERATION"),
                  [booleanOperation |-> "XOR", fills |-> <<Solid>>,
                   children |-> <<Merge(Base(GrandChildIds[i], "RECTANGLE"), [fills |-> <<Solid>>]),
                                  Merge(Base(SecondGrandChildIds[i], "ELLIPSE"), [fills |-> <<Solid>>])>>])

RootKinds == {"FRAME", "NONE", "COMPONENT", "INSTANCE", "UNION", "SUBTRACT", "INTERSECT",
              "EXCLUDE", "XOR"}

Root(kind) ==
    CASE kind = "FRAME" -> Base("1:1", "FRAME")
      [] kind = "NONE" -> Merge(Base("1:1", "NONE"), [color |-> Solid.color])
      [] kind = "COMPONENT" -> Base("c:1", "COMPONENT")
      [] kind = "INSTANCE" -> Merge(Base("1:1", "INSTANCE"), [componentId |-> "c:1", fills |-> <<Solid>>])
      [] OTHER -> Merge(Base("1:1", "BOOLEAN_OPERATION"), [booleanOperation |-> kind, fills |-> <<Solid>>])

Tree(rootKind, kinds) ==
    Merge(Root(rootKind),
          [children |-> [i \in DOMAIN kinds |->
              Child(kinds[i], IF rootKind = "INSTANCE" THEN InstanceChildIds[i] ELSE ChildIds[i], i)]])

KindLists == UNION {[1..n -> ChildKinds] : n \in 0..MaxChildren}

Trees == {Tree(rk, kinds) : rk \in RootKinds, kinds \in KindLists}

\* an instance of c:1 whose children are the component's rectangles, each the
\* same, renamed, moved, turned, resized, recoloured, or several of these
OverrideKinds == {"SAME", "RENAMED", "MOVED", "TURNED", "RESIZED", "MOVED_RESIZED",
                  "RECOLOURED", "MOVED_RECOLOURED"}

Moved == [relativeTransform |-> <<<<1, 0, 7>>, <<0, 1, 2>>>>,
          absoluteBoundingBox |-> [x |-> 16, y |-> 20, width |-> 4, height |-> 3]]
Turned == [relativeTransform |-> <<<<0, -1, 1>>, <<1, 0, 2>>>>]
Resized == [size |-> [x |-> 6, y |-> 3]]
Recoloured == [fills |-> <<Stroke>>]

OverrideChild(kind, id) ==
    Merge(Merge(Base(id, "RECTANGLE"), [fills |-> <<Solid>>]),
          CASE kind = "SAME" -> EmptyObject
            [] kind = "RENAMED" -> [name |-> <<"M">>]
            [] kind = "MOVED" -> Moved
            [] kind = "TURNED" -> Turned
            [] kind = "RESIZED" -> Resized
            [] kind = "MOVED_RESIZED" -> Merge(Moved, Resized)
            [] kind = "RECOLOURED" -> Recoloured
            [] kind = "MOVED_RECOLOURED" -> Merge(Moved, Recoloured))

InstanceTrees ==
    {Merge(Root("INSTANCE"),
           [children |-> [i \in DOMAIN kinds |-> OverrideChild(kinds[i], InstanceChildIds[i])]]) :
        kinds \in UNION {[1..n -> OverrideKinds] : n \in 0..MaxChildren}}

\* a rectangle of some size filled with a colour of some channels (in
\* quarters), the paint with or without an opacity
Sizes == {[x |-> 100, y |-> 50], [x |-> 4, y |-> 3], [x |-> 1234567, y |-> 50]}

Colours == [r : 0..4, g : {0, 2}, b : {0, 3}, a : 0..4]

ColouredRectangles ==
    {Merge(Base("1:1", "RECTANGLE"),
           [size |-> sz, fills |-> <<Merge([type |-> "SOLID", color |-> c], o)>>]) :
        sz \in Sizes, c \in Colours, o \in {EmptyObject, [opacity |-> 2], [opacity |-> 4]}}

ImageIds == {"1:1", "c:1", "img1"} \cup {ChildIds[i] : i \in DOMAIN ChildIds}
            \cup {InstanceChildIds[i] : i \in DOMAIN InstanceChildIds}

\* the images the provider returns no bytes for
\* a frame whose only child is a boolean node, smaller than the frame and
\* placed inside it, of two children: one centred in its parent or marked for
\* rendering, and a rectangle
NestedOperations == {"UNION", "SUBTRACT", "INTERSECT", "EXCLUDE"}

NestedBoolean(operation, first) ==
    Merge(Base("1:1", "FRAME"),
          [children |-> <<
              [id |-> "n1", name |-> <<"N">>, type |-> "BOOLEAN_OPERATION",
               booleanOperation |-> operation, fills |-> <<Solid>>,
               absoluteBoundingBox |-> [x |-> 11, y |-> 21, width |-> 2, height |-> 2],
               size |-> [x |-> 2, y |-> 2],
               relativeTransform |-> <<<<1, 0, 1>>, <<0, 1, 1>>>>,
               children |-> <<Child(first, "n1.1", 1),
                              Merge(Base("n1.2", "RECTANGLE"), [fills |-> <<Solid>>])>>]>>])

NestedBooleans == {NestedBoolean(o, k) : o \in NestedOperations, k \in {"RECT", "INSTANCE", "RENDERED"}}

\* the component c:1 with the first of its rectangles only
SingleChildObject == [ComponentObject EXCEPT !.children = <<ComponentObject.children[1]>>]

SingleCatalogue == [k \in {"c:1"} |-> [name |-> validFileName(<<"C">>), object |-> SingleChildObject]]

\* an instance of c:1 with one or two children: the instance's copy of the
\* component's first or second rectangle, a rectangle the component does not
\* have, or a mask
StrayKinds == {"FIRST", "SECOND", "STRAY", "MASK"}

StrayChild(kind, i) ==
    CASE kind = "FIRST" -> Child("RECT", InstanceChildIds[1], i)
      [] kind = "SECOND" -> Child("RECT", InstanceChildIds[2], i)
      [] kind = "STRAY" -> Child("RECT", ChildIds[i], i)
      [] kind = "MASK" -> Child("MASK", ChildIds[i], i)

StrayInstances ==
    {Merge(Root("INSTANCE"), [children |-> [i \in DOMAIN kinds |-> StrayChild(kinds[i], i)]]) :
        kinds \in {l \in [1..1 -> StrayKinds] \cup [1..2 -> StrayKinds] :
                      \A i, j \in DOMAIN l : l[i] = l[j] /\ l[i] \in {"FIRST", "SECOND"} => i = j}}

\* a frame of 20 by 10 whose only child is one of StrokedNodes, centred in it
CentredNodes ==
    {Merge(Base("1:1", "FRAME"),
           [size |-> [x |-> 20, y |-> 10],
            children |-> <<Merge([n EXCEPT !.id = "n1"], Centred)>>]) : n \in StrokedNodes}

\* a frame whose first child is a mask and whose second is a rectangle; the
\* mask is an ellipse with a solid or an image fill, or a boolean node of two
\* rectangles
MaskShapes == {"SOLID", "IMAGE"} \cup NestedOperations

MaskShape(shape) ==
    CASE shape = "SOLID" -> Child("MASK", "n1", 1)
      [] shape = "IMAGE" -> Merge(Child("MASK", "n1", 1), [fills |-> <<ImageFill>>])
      [] OTHER -> Merge(NestedBoolean(shape, "RECT").children[1], [isMask |-> TRUE])

MaskedNodes ==
    {Merge(Base("1:1", "FRAME"), [children |-> <<MaskShape(shape), Child("RECT", "n2", 2)>>]) :
        shape \in MaskShapes}

Providers == {{}, ImageIds, ImageIds \cup {PlaceHolder}}

Init ==
    /\ \/ call \in [fn : {"element", "component"}, obj : TopNodes, flags : SUBSET PrerenderFlags,
                    data : Providers, components : {Catalogue}]
       \/ call \in [fn : {"element", "component"}, obj : Trees, flags : {{}, {"BreakBooleans"}},
                    data : Providers, components : {Catalogue}]
       \/ call \in [fn : {"element", "component"}, obj : StrokedNodes, flags : {{}},
                    data : Providers, components : {Catalogue}]
       \/ call \in [fn : {"element", "component"}, obj : InstanceTrees, flags : {{}},
                    data : Providers, components : {Catalogue}]
       \/ call \in [fn : {"element", "component"}, obj : ColouredRectangles, flags : {{}},
                    data : {{}}, components : {Catalogue}]
       \/ call \in [fn : {"element", "component"}, obj : NestedBooleans, flags : {{"BreakBooleans"}},
                    data : Providers, components : {Catalogue}]
       \/ call \in [fn : {"element", "component"}, obj : CentredNodes, flags : {{}},
                    data : {{}}, components : {Catalogue}]
       \/ call \in [fn : {"element", "component"}, obj : MaskedNodes, flags : {{}, {"BreakBooleans"}},
                    data : {{}}, components : {Catalogue}]
       \/ call \in [fn : {"element", "component"}, obj : StrayInstances, flags : {{}},
                    data : {{}}, components : {Catalogue, SingleCatalogue}]
    /\ ret = NoRet
    /\ errs = <<>>
    /\ cbLog = <<>>
    /\ parsed = <<>>
    /\ lookups = {}
    /\ traversals = {}
    /\ pc = "call"

Spec == Init /\ [][Next]_vars

TranspileDone == pc = "done" /\ call.fn \in {"element", "component"}

\* the node of the transpiled tree with the given id
NodeOf(id) ==
    NodeAt(call.obj, CHOOSE p \in Paths(call.obj) : Str(NodeAt(call.obj, p), "id") = id)

Flags == IF call.fn = "component" THEN call.flags \cup {"ParseComponent"} ELSE call.flags

Fatal(what) == <<[what |-> what, isFatal |-> TRUE]>>

\* the i-th node parse was invoked on
Reached(i) == NodeOf(parsed[i].id)

\* the four failures of the descent, told from the input and the callbacks:
\* a node of unknown type was reached
UnknownTypeReached == \E i \in DOMAIN parsed : Str(Reached(i), "type") \notin KnownTypes
\* a live INSTANCE, or a live COMPONENT outside parse-as-component, names no component of the catalogue
UnresolvedReached ==
    \E i \in DOMAIN parsed :
        LET n == Reached(i)
        IN  /\ parsed[i].branch = "live"
            /\ \/ Str(n, "type") = "INSTANCE" /\ Str(n, "componentId") \notin DOMAIN call.components
               \/ /\ Str(n, "type") = "COMPONENT" /\ "ParseComponent" \notin Flags
                  /\ Str(n, "id") \notin DOMAIN call.components
\* the provider returned no bytes and there is no placeholder to fall back to
ImageMissing ==
    \E i \in DOMAIN cbLog :
        /\ cbLog[i].image \in call.data
        /\ cbLog[i].image = PlaceHolder \/ ~cbLog[i].isRendering
\* a live boolean node with fewer than two children under BreakBooleans
SmallBooleanReached ==
    \E i \in DOMAIN parsed :
        LET n == Reached(i)
        IN  /\ parsed[i].branch = "live"
            /\ Str(n, "type") = "BOOLEAN_OPERATION" /\ "BreakBooleans" \in Flags
            /\ Len(Arr(n, "children")) < 2

\* C1: no exception escapes element() and component(): a call that does not
\* stop at the assertion of line 1751 returns; when none of the four failures
\* is met, reportIssue is not invoked and the Element carries the top-level
\* node's id; when one is met, reportIssue is invoked exactly once, with
\* isFatal = true, and the Element returned is the default one, whatever had
\* been parsed before the failure.
C1_FailuresAreFunnelled ==
    (pc \notin {"call", "aborted", "undefined"} /\ call.fn \in {"element", "component"}) =>
        /\ pc = "done"
        /\ IF UnknownTypeReached \/ UnresolvedReached \/ ImageMissing \/ SmallBooleanReached
           THEN /\ Len(errs) = 1
                /\ errs[1].isFatal
                /\ ret = DefaultElement
           ELSE /\ errs = <<>>
                /\ ret.id = call.obj.id

\* a frame whose first child, an instance of c:1, was emitted (its component id
\* recorded) before the second child, of unknown type, failed
C1_Witness ==
    /\ TranspileDone
    /\ Len(parsed) = 3
    /\ parsed[2].branch = "live"
    /\ Str(Reached(2), "type") = "INSTANCE"
    /\ Str(Reached(2), "componentId") \in DOMAIN call.components
    /\ Str(Reached(3), "type") \notin KnownTypes
    /\ errs = Fatal("Non supported object type")
    /\ ret = DefaultElement

\* C2: when parse reaches a node whose type string is not one of the 14 known
\* ones, exactly one fatal issue "Non supported object type" is reported, the
\* element's markup is empty, nothing is parsed after that node and the image
\* provider is not asked for it, whether or not the node carries isRendering.
C2_UnknownTypeIsFatal ==
    TranspileDone =>
        \A i \in DOMAIN parsed :
            Str(Reached(i), "type") \notin KnownTypes =>
                /\ errs = Fatal("Non supported object type")
                /\ ret.data = <<>>
                /\ i = Len(parsed)
                /\ \A j \in DOMAIN cbLog : cbLog[j].image # parsed[i].id

\* a child of unknown type carrying isRendering: true, reached under a provider
\* that has its image
C2_Witness ==
    /\ TranspileDone
    /\ call.data = {}
    /\ Len(parsed) = 2
    /\ Str(Reached(2), "type") \notin KnownTypes
    /\ Bool(Reached(2), "isRendering")
    /\ errs = Fatal("Non supported object type")
    /\ ret.data = <<>>

\* the markup is the pre-rendered form: a container Item with x, y, width and
\* height that holds one Image or nothing
IsPrerenderedForm(data) ==
    /\ Len(data) >= 8
    /\ data[1] = Open("Item")
    /\ \A j \in 4..7 : data[j].k = "num"
    /\ <<data[4].n, data[5].n, data[6].n, data[7].n>> = <<"x", "y", "width", "height">>
    /\ \/ Len(data) = 8 /\ data[8] = Close
       \/ /\ data[8] = Open("Image")
          /\ \E j \in DOMAIN data : data[j].k = "prop" /\ data[j].n = "source"
          /\ data[Len(data) - 1] = Close /\ data[Len(data)] = Close
          /\ \A j \in 9..Len(data) : data[j].k # "open"

Invisible(n) == Has(n, "visible") /\ ~Bool(n, "visible")

\* the provider was asked for the rendering of node n
RenderingAsked(n) == \E j \in DOMAIN cbLog : cbLog[j] = ImageCall(Str(n, "id"), TRUE)

\* the condition as the claim states it
OriginalCondition(n) ==
    \/ Bool(n, "isRendering")
    \/ (Str(n, "type") \in VectorTypes \/ isGradient(n)) /\ "PrerenderShapes" \in Flags
    \/ Str(n, "type") = "FRAME" /\ "PrerenderFrames" \in Flags
    \/ Str(n, "type") = "GROUP" /\ "PrerenderGroups" \in Flags
    \/ Str(n, "type") = "COMPONENT" /\ "PrerenderComponents" \in Flags
    \/ Str(n, "type") = "INSTANCE" /\ "PrerenderInstances" \in Flags

\* the condition of the code: a gradient fill pre-renders a Vector or a TEXT
\* node whatever the options are, and nothing else
AmendedCondition(n) ==
    \/ Bool(n, "isRendering")
    \/ Str(n, "type") \in VectorTypes /\ ("PrerenderShapes" \in Flags \/ isGradient(n))
    \/ Str(n, "type") = "TEXT" /\ isGradient(n)
    \/ Str(n, "type") = "FRAME" /\ "PrerenderFrames" \in Flags
    \/ Str(n, "type") = "GROUP" /\ "PrerenderGroups" \in Flags
    \/ Str(n, "type") = "COMPONENT" /\ "PrerenderComponents" \in Flags
    \/ Str(n, "type") = "INSTANCE" /\ "PrerenderInstances" \in Flags

Condition(n, amended) == IF amended THEN AmendedCondition(n) ELSE OriginalCondition(n)

\* every node of a known type that parse reaches goes to parseRendered exactly
\* under the condition, the provider is asked for its rendering exactly when it does and
\* is not invisible, and the markup of a top-level node has the pre-rendered
\* form exactly under it
PrerenderedExactlyWhen(amended) ==
    TranspileDone =>
        /\ \A i \in DOMAIN parsed :
              LET n == Reached(i)
              IN  Str(n, "type") \in KnownTypes =>
                    /\ parsed[i].branch = "rendered" <=> Condition(n, amended)
                    /\ parsed[i].branch = "live" <=> ~Condition(n, amended)
                    /\ RenderingAsked(n) <=> (Condition(n, amended) /\ ~Invisible(n))
        /\ (errs = <<>> /\ Str(call.obj, "type") \in KnownTypes) =>
              (IsPrerenderedForm(ret.data) <=> Condition(call.obj, amended))

\* C10 as stated: pre-rendered iff flagged, or (Vector or gradient-filled) with
\* PrerenderShapes, or FRAME / GROUP / COMPONENT / INSTANCE with its option
C10_Original == PrerenderedExactlyWhen(FALSE)

\* C10: parse emits the pre-rendered form iff the node is flagged isRendering,
\* or is Vector-category and PrerenderShapes is set or it is gradient-filled, or
\* is a TEXT and gradient-filled, or is a FRAME / GROUP / COMPONENT / INSTANCE
\* and its option is set; the container holds an image from the provider unless
\* the node is invisible; in every other case the node is emitted live.
C10_PrerenderedIff == PrerenderedExactlyWhen(TRUE)

\* a gradient-filled rectangle pre-rendered with no option set and no flag
C10_Witness ==
    /\ TranspileDone
    /\ call.flags = {}
    /\ Str(call.obj, "type") = "RECTANGLE"
    /\ isGradient(call.obj)
    /\ ~Bool(call.obj, "isRendering")
    /\ errs = <<>>
    /\ parsed[1].branch = "rendered"
    /\ IsPrerenderedForm(ret.data)
    /\ RenderingAsked(call.obj)

\* the token is among the markup
Emitted(data, token) == \E j \in DOMAIN data : data[j] = token

PlaceholderComment == Comment("Image load failed, placeholder")

\* the number of times the provider was asked for the rendering of the image
RenderingCalls(image) == Cardinality({j \in DOMAIN cbLog : cbLog[j] = ImageCall(image, TRUE)})

\* C11: the provider is asked for (node id, true) once for every visible node
\* that is pre-rendered and never for an invisible one; the placeholder is
\* asked for, with isRendering true, exactly after an empty answer to such a
\* call, and an empty answer to it is fatal; an image fill is asked for with
\* (imageRef, false) and an empty answer is fatal with no further call.  For a
\* pre-rendered top-level node: the bytes of the first answer are the source;
\* with the placeholder's bytes the transpile succeeds and the markup carries
\* the placeholder comment; with neither, one fatal issue and the default
\* Element.
C11_ImageProtocol ==
    TranspileDone =>
        /\ \A i \in DOMAIN cbLog :
              LET c == cbLog[i]
              IN  IF ~c.isRendering
                  THEN /\ c.image = ImageFill.imageRef
                       /\ c.image \in call.data =>
                              /\ i = Len(cbLog)
                              /\ errs = Fatal("Cannot read imageRef")
                              /\ ret = DefaultElement
                  ELSE IF c.image # PlaceHolder
                  THEN /\ \E j \in DOMAIN parsed :
                              /\ parsed[j].id = c.image
                              /\ parsed[j].branch = "rendered"
                              /\ ~Invisible(Reached(j))
                       /\ c.image \in call.data <=>
                              (i < Len(cbLog) /\ cbLog[i + 1] = ImageCall(PlaceHolder, TRUE))
                  ELSE /\ i > 1
                       /\ cbLog[i - 1].isRendering
                       /\ cbLog[i - 1].image # PlaceHolder
                       /\ cbLog[i - 1].image \in call.data
                       /\ PlaceHolder \in call.data =>
                              /\ i = Len(cbLog)
                              /\ errs = Fatal("Cannot load placeholder")
                              /\ ret = DefaultElement
        /\ \A j \in DOMAIN parsed :
              parsed[j].branch = "rendered" =>
                  RenderingCalls(parsed[j].id) = IF Invisible(Reached(j)) THEN 0 ELSE 1
        /\ parsed[1].branch = "rendered" =>
              LET id == Str(call.obj, "id")
              IN  IF Invisible(call.obj)
                  THEN /\ cbLog = <<>>
                       /\ errs = <<>>
                       /\ \A j \in DOMAIN ret.data : ret.data[j].k = "prop" => ret.data[j].n # "source"
                  ELSE IF id \notin call.data
                  THEN /\ cbLog = <<ImageCall(id, TRUE)>>
                       /\ errs = <<>>
                       /\ Emitted(ret.data, Prop("source", ImageBytes([noImage |-> call.data], id)))
                       /\ ~Emitted(ret.data, PlaceholderComment)
                  ELSE IF PlaceHolder \notin call.data
                  THEN /\ cbLog = <<ImageCall(id, TRUE), ImageCall(PlaceHolder, TRUE)>>
                       /\ errs = <<>>
                       /\ Emitted(ret.data, PlaceholderComment)
                       /\ Emitted(ret.data, Prop("source", ImageBytes([noImage |-> call.data], PlaceHolder)))
                  ELSE /\ cbLog = <<ImageCall(id, TRUE), ImageCall(PlaceHolder, TRUE)>>
                       /\ errs = Fatal("Cannot load placeholder")
                       /\ ret = DefaultElement

\* a visible pre-rendered top-level node whose own image is missing and whose
\* markup holds the placeholder's bytes
C11_Witness ==
    /\ TranspileDone
    /\ parsed[1].branch = "rendered"
    /\ ~Invisible(call.obj)
    /\ Str(call.obj, "id") \in call.data
    /\ PlaceHolder \notin call.data
    /\ cbLog = <<ImageCall(Str(call.obj, "id"), TRUE), ImageCall(PlaceHolder, TRUE)>>
    /\ errs = <<>>
    /\ Emitted(ret.data, PlaceholderComment)

\* the node is emitted through parseInstance: a live INSTANCE, or a live
\* COMPONENT outside parse-as-component
ThroughParseInstance(i) ==
    /\ parsed[i].branch = "live"
    /\ \/ Str(Reached(i), "type") = "INSTANCE"
       \/ Str(Reached(i), "type") = "COMPONENT" /\ "ParseComponent" \notin Flags

\* C12: a live INSTANCE whose componentId, or a live COMPONENT outside
\* parse-as-component whose own id, is no key of the catalogue ends the
\* transpile at that node with one fatal issue and the default Element; in a
\* transpile that succeeds every such node names a registered component, which
\* is recorded among the element's component ids; and the catalogue is never
\* dereferenced for an id that is not registered.
C12_InstancesResolve ==
    TranspileDone =>
        /\ \A l \in lookups : l.id \in DOMAIN call.components
        /\ \A i \in DOMAIN parsed :
              ThroughParseInstance(i) =>
                  IF ComponentIdOf(Reached(i)) \in DOMAIN call.components
                  THEN /\ Deref(ComponentIdOf(Reached(i)), "parseInstance") \in lookups
                       /\ errs = <<>> => ComponentIdOf(Reached(i)) \in ret.components
                  ELSE /\ errs = Fatal("Unexpected component dependency")
                       /\ ret = DefaultElement
                       /\ i = Len(parsed)

\* a centred instance of the registered component, whose extent getValue reads
\* through the catalogue, followed by an instance of a component that is not
\* registered
C12_Witness ==
    /\ TranspileDone
    /\ Len(parsed) = 3
    /\ ThroughParseInstance(2)
    /\ Has(Reached(2), "constraints")
    /\ ThroughParseInstance(3)
    /\ ComponentIdOf(Reached(3)) \notin DOMAIN call.components
    /\ errs = Fatal("Unexpected component dependency")
    /\ lookups = {Deref(ComponentIdOf(Reached(2)), "parseInstance"),
                  Deref(ComponentIdOf(Reached(2)), "getValue")}

\* the number of times the token is among the markup
Count(data, token) == Cardinality({j \in DOMAIN data : data[j] = token})

\* the markup sets the property
HasProperty(data, name) ==
    \E j \in DOMAIN data : data[j].k \in {"prop", "num", "color"} /\ data[j].n = name

\* parseVector's hasBorders, as the claim words it: at least one stroke entry
\* and strokeWeight > 1
NonTrivialStroke(n) == Arr(n, "strokes") # <<>> /\ Dbl(n, "strokeWeight") > 1

\* the three constructions over a solid fill
InsideConstruction(data, n) ==
    /\ Count(data, Open("OpacityMask")) = 1
    /\ ~HasProperty(data, "invert")
    /\ Count(data, Open("Shape")) >= 2
    /\ Emitted(data, Num("strokeWidth", 2 * Dbl(n, "strokeWeight")))
    /\ Emitted(data, Prop("source", BorderSourceId(n)))
    /\ Emitted(data, Prop("maskSource", BorderMaskId(n)))

OutsideConstruction(data, n) ==
    /\ Count(data, Open("OpacityMask")) = 1
    /\ Emitted(data, Prop("invert", <<"true">>))

SingleShapePath(data, n, widthAlways) ==
    /\ Count(data, Open("OpacityMask")) = 0
    /\ Count(data, Open("ShapePath")) = 1
    /\ HasProperty(data, "strokeColor")
    /\ HasProperty(data, "fillColor")
    /\ IF widthAlways \/ Has(n, "strokeWeight")
       THEN Emitted(data, Num("strokeWidth", Dbl(n, "strokeWeight")))
       ELSE ~HasProperty(data, "strokeWidth")

\* a top-level vector-like node emitted live
LiveVector ==
    /\ TranspileDone
    /\ Str(call.obj, "type") \in VectorTypes
    /\ parsed[1].branch = "live"

StrokeStrategy(widthAlways) ==
    LiveVector =>
        /\ (imageFill(call.obj) = NoImage) =>
              /\ errs = <<>>
              /\ cbLog = <<>>
              /\ InsideConstruction(ret.data, call.obj)
                    <=> (NonTrivialStroke(call.obj) /\ Str(call.obj, "strokeAlign") = "INSIDE")
              /\ OutsideConstruction(ret.data, call.obj)
                    <=> (NonTrivialStroke(call.obj) /\ Str(call.obj, "strokeAlign") = "OUTSIDE")
              /\ (~NonTrivialStroke(call.obj) \/ Str(call.obj, "strokeAlign") \notin {"INSIDE", "OUTSIDE"})
                    => SingleShapePath(ret.data, call.obj, widthAlways)
        /\ (imageFill(call.obj) # NoImage) =>
              /\ cbLog = <<ImageCall(imageFill(call.obj).ref, FALSE)>>
              /\ errs = <<>> =>
                    /\ Count(ret.data, Open("Image")) = 1
                    /\ Emitted(ret.data, Prop("maskSource", MaskSourceId(call.obj)))
                    /\ Emitted(ret.data, Prop("invert", <<"true">>))
                          <=> (NonTrivialStroke(call.obj) /\ Str(call.obj, "strokeAlign") = "OUTSIDE")
                    /\ Emitted(ret.data, Prop("maskSource", BorderMaskId(call.obj)))
                          <=> (NonTrivialStroke(call.obj)
                               /\ Str(call.obj, "strokeAlign") \in {"INSIDE", "OUTSIDE"})

\* C13 as stated: the single shape path always carries strokeWidth
C13_Original == StrokeStrategy(TRUE)

\* C13: for a live vector-like node with a solid first fill, the inside
\* construction (two shapes, the first with the doubled stroke width, under one
\* opacity mask that is not inverted) is emitted iff the node has a stroke
\* entry, strokeWeight > 1 and strokeAlign INSIDE, the outside construction
\* (one inverted opacity mask) iff the same holds with OUTSIDE, and otherwise
\* exactly one ShapePath with strokeColor and fillColor and no opacity mask,
\* which carries strokeWidth exactly when the node has a strokeWeight; the
\* image variant (one Image asked from the provider with isRendering false,
\* masked by the shape) is chosen exactly when the first fill has an imageRef.
C13_StrokeStrategy == StrokeStrategy(FALSE)

\* a rectangle with a stroke of weight 2 aligned INSIDE over a solid fill
C13_Witness ==
    /\ LiveVector
    /\ imageFill(call.obj) = NoImage
    /\ NonTrivialStroke(call.obj)
    /\ Str(call.obj, "strokeAlign") = "INSIDE"
    /\ InsideConstruction(ret.data, call.obj)
    /\ Emitted(ret.data, Num("strokeWidth", 4))

\* the parser's setting in the call
Ctx == [flags |-> Flags, noImage |-> call.data, components |-> call.components]

\* opening minus closing tokens among data[i..j]
Depth(data, i, j) ==
    Cardinality({x \in i..j : data[x].k = "open"}) - Cardinality({x \in i..j : data[x].k = "close"})

\* the block opened at i: the positions of its opening and closing token
BlockEnd(data, i) ==
    CHOOSE j \in i..Len(data) : Depth(data, i, j) = 0 /\ \A x \in i..(j - 1) : Depth(data, i, x) > 0

Block(data, i) == SubSeq(data, i, BlockEnd(data, i))

\* the positions where the token sequence occurs in the markup
Occurrences(data, tokens) ==
    {i \in 1..(Len(data) - Len(tokens) + 1) : SubSeq(data, i, i + Len(tokens) - 1) = tokens}

\* a live UNION of exactly two children under BreakBooleans, neither child a
\* mask nor emitting an opacity mask of its own
UnionOfTwo ==
    /\ TranspileDone
    /\ Str(call.obj, "type") = "BOOLEAN_OPERATION"
    /\ Str(call.obj, "booleanOperation") = "UNION"
    /\ "BreakBooleans" \in Flags
    /\ parsed[1].branch = "live"
    /\ Len(Arr(call.obj, "children")) = 2
    /\ \A i \in 1..2 :
          /\ ~Bool(call.obj.children[i], "isMask")
          /\ parse(Ctx, call.obj.children[i], call.obj).ok
          /\ ~Emitted(parse(Ctx, call.obj.children[i], call.obj).out, Open("OpacityMask"))

SourceRectangleHead == <<Open("Rectangle"), Prop("id", SourceId(call.obj)), Prop("anchors.fill", <<"parent">>)>>

MaskSourceHead ==
    <<Open("Item"), Prop("anchors.fill", <<"parent">>), Prop("visible", <<"false">>),
      Prop("id", MaskSourceId(call.obj))>>

\* C14: under BreakBooleans a UNION of exactly two children that emit no mask
\* composition of their own gives exactly one OpacityMask, whose source is the
\* one Rectangle coloured by the node's first fill (and invisible) and whose
\* maskSource is the one invisible Item that holds the markup of the first
\* child followed by the markup of the second.
C14_UnionOfTwo ==
    UnionOfTwo =>
        /\ errs = <<>>
        /\ Count(ret.data, Open("OpacityMask")) = 1
        /\ \E o \in Occurrences(ret.data, <<Open("OpacityMask")>>) :
              /\ Emitted(Block(ret.data, o), Prop("source", SourceId(call.obj)))
              /\ Emitted(Block(ret.data, o), Prop("maskSource", MaskSourceId(call.obj)))
              /\ ~HasProperty(Block(ret.data, o), "invert")
        /\ Count(ret.data, Open("Rectangle"))
              = Count(parse(Ctx, call.obj.children[1], call.obj).out, Open("Rectangle"))
                + Count(parse(Ctx, call.obj.children[2], call.obj).out, Open("Rectangle")) + 1
        /\ Cardinality(Occurrences(ret.data, SourceRectangleHead)) = 1
        /\ \A r \in Occurrences(ret.data, SourceRectangleHead) :
              /\ \E j \in DOMAIN Block(ret.data, r) :
                    /\ Block(ret.data, r)[j].k = "color"
                    /\ Block(ret.data, r)[j].n = "color"
                    /\ Block(ret.data, r)[j].v = makeColor(call.obj.fills[1].color, 4)[1].v
              /\ Emitted(Block(ret.data, r), Prop("visible", <<"false">>))
              /\ Depth(ret.data, r + 1, BlockEnd(ret.data, r) - 1) = 0
        /\ Cardinality(Occurrences(ret.data, MaskSourceHead)) = 1
        /\ \A m \in Occurrences(ret.data, MaskSourceHead) :
              Block(ret.data, m)
                = MaskSourceHead
                  \o parse(Ctx, call.obj.children[1], call.obj).out
                  \o parse(Ctx, call.obj.children[2], call.obj).out
                  \o <<Close>>

\* the union of a rectangle and a text
C14_Witness ==
    /\ UnionOfTwo
    /\ Str(call.obj.children[1], "type") = "RECTANGLE"
    /\ Str(call.obj.children[2], "type") = "TEXT"
    /\ Count(ret.data, Open("OpacityMask")) = 1
    /\ Emitted(ret.data, Prop("maskSource", MaskSourceId(call.obj)))

\* a live instance of c:1 with as many children as the component has, none of
\* them a mask, transpiled without an issue
MatchedInstance ==
    /\ TranspileDone
    /\ Str(call.obj, "type") = "INSTANCE"
    /\ Str(call.obj, "componentId") = "c:1"
    /\ call.components = Catalogue
    /\ parsed[1].branch = "live"
    /\ errs = <<>>
    /\ Len(Arr(call.obj, "children")) = Len(ComponentObject.children)
    /\ \A i \in DOMAIN Arr(call.obj, "children") :
          /\ ~Bool(call.obj.children[i], "isMask")
          /\ LastSegment(Str(call.obj.children[i], "id")) = Str(ComponentObject.children[i], "id")

\* the positions of what the markup writes on the delegate slot
SlotLines(data, slot) == {j \in DOMAIN data : data[j].k \in {"bind", "override"} /\ data[j].slot = slot}

\* the rule for the canonical child i, its delta d, its slot and the markup
\* of the instance's child
MinimalOverride(data, objChild, d, slot, bytes) ==
    /\ DOMAIN d = {} => SlotLines(data, slot) = {}
    /\ DOMAIN d # {} /\ DOMAIN d \subseteq {"relativeTransform", "size"} =>
          /\ \A j \in SlotLines(data, slot) :
                \/ data[j].k = "bind" /\ data[j].p \in {"x", "y", "width", "height"}
                \/ data[j].k = "override" /\ data[j].p = "transform"
          /\ Occurrences(data, bytes) = {}
          /\ "relativeTransform" \in DOMAIN d =>
                /\ Emitted(data, Bind(slot, "x", objChild.relativeTransform[1][3]))
                /\ Emitted(data, Bind(slot, "y", objChild.relativeTransform[2][3]))
          /\ "size" \in DOMAIN d =>
                /\ Emitted(data, Bind(slot, "width", objChild.size.x))
                /\ Emitted(data, Bind(slot, "height", objChild.size.y))
    /\ ~(DOMAIN d \subseteq {"relativeTransform", "size"}) =>
          /\ Occurrences(data, <<Override(slot, "")>> \o bytes) # {}
          /\ \A j \in SlotLines(data, slot) : data[j] = Override(slot, "")

\* C15: in an instance with as many children as its component, a canonical
\* child whose delta against the instance's child (absoluteBoundingBox, name
\* and id ignored) is empty gets no line; one whose delta has only
\* relativeTransform and size gets only the x, y, transform, width and height
\* bindings of its delegate, never the child's markup; any other gets the
\* child's whole markup on the delegate named after the canonical child's id.
C15_MinimalOverride ==
    MatchedInstance =>
        \A i \in DOMAIN ComponentObject.children :
            MinimalOverride(ret.data, call.obj.children[i],
                            OverrideDelta(Ctx, call.obj.children[i], ComponentObject.children[i]),
                            delegateName(Str(ComponentObject.children[i], "id")),
                            parse(Ctx, call.obj.children[i], call.obj).out)

\* a moved and resized first child next to a recoloured second one
C15_Witness ==
    /\ MatchedInstance
    /\ DOMAIN OverrideDelta(Ctx, call.obj.children[1], ComponentObject.children[1])
          = {"relativeTransform", "size"}
    /\ "fills" \in DOMAIN OverrideDelta(Ctx, call.obj.children[2], ComponentObject.children[2])
    /\ Emitted(ret.data, Bind(delegateName("c1"), "width", 6))
    /\ Emitted(ret.data, Override(delegateName("c2"), ""))
    /\ ~Emitted(ret.data, Override(delegateName("c1"), ""))

\* a live rectangle with a size, a solid colour as its first fill and no stroke
PlainRectangle ==
    /\ TranspileDone
    /\ Str(call.obj, "type") = "RECTANGLE"
    /\ parsed[1].branch = "live"
    /\ Has(call.obj, "size")
    /\ Arr(call.obj, "fills") # <<>>
    /\ Str(call.obj.fills[1], "type") = "SOLID"
    /\ Has(call.obj.fills[1], "color")
    /\ Arr(call.obj, "strokes") = <<>>

\* "#AARRGGBB" of the channels r, g, b in quarters and a in sixteenths, each
\* round(channel * 255) in two lowercase hexadecimal digits
ARGB(r, g, b, a) ==
    <<"#">> \o Hex2(Round255(a, 16)) \o Hex2(Round255(r, 4)) \o Hex2(Round255(g, 4)) \o Hex2(Round255(b, 4))

FillColor(text) == [k |-> "color", n |-> "fillColor", v |-> text]

\* the markup of the rectangle has width: and height: with the given texts
\* and the fill colour of the channels, the alpha in sixteenths
RectangleMarkup(width, height, alpha) ==
    /\ errs = <<>>
    /\ Emitted(ret.data, [k |-> "num", n |-> "width", x |-> width])
    /\ Emitted(ret.data, [k |-> "num", n |-> "height", x |-> height])
    /\ Emitted(ret.data, FillColor(ARGB(call.obj.fills[1].color.r, call.obj.fills[1].color.g,
                                        call.obj.fills[1].color.b, alpha)))
    /\ call.obj.size = [x |-> 100, y |-> 50] /\ call.obj.fills[1].color = Solid.color
       /\ (Has(call.obj.fills[1], "opacity") => call.obj.fills[1].opacity = 4) =>
          /\ Emitted(ret.data, [k |-> "num", n |-> "width", x |-> <<"1", "0", "0">>])
          /\ Emitted(ret.data, [k |-> "num", n |-> "height", x |-> <<"5", "0">>])
          /\ Emitted(ret.data, FillColor(<<"#", "f", "f", "f", "f", "0", "0", "0", "0">>))

\* C16 as stated: width and height are written as they are and the alpha
\* digits are round(a * 255), whatever the paint's opacity
C16_Original ==
    PlainRectangle =>
        RectangleMarkup(DigitsIn(call.obj.size.x, 10), DigitsIn(call.obj.size.y, 10),
                        call.obj.fills[1].color.a * 4)

\* C16: a live rectangle with size (w, h), a solid first fill (r, g, b, a) and
\* no stroke has width: w and height: h, written with six significant digits,
\* and fillColor "#AARRGGBB", each channel round(channel * 255) in two
\* lowercase hexadecimal digits, where the alpha channel is a times the
\* paint's opacity when the paint has one; for (100, 50) and opaque red
\* these are width:100, height:50 and #ffff0000.
C16_RectangleMarkup ==
    PlainRectangle =>
        RectangleMarkup(number(call.obj.size.x), number(call.obj.size.y),
                        call.obj.fills[1].color.a
                        * (IF Has(call.obj.fills[1], "opacity") THEN call.obj.fills[1].opacity ELSE 4))

\* the example
C16_Witness ==
    /\ PlainRectangle
    /\ call.obj.size = [x |-> 100, y |-> 50]
    /\ call.obj.fills[1] = [type |-> "SOLID", color |-> Solid.color]
    /\ Emitted(ret.data, FillColor(<<"#", "f", "f", "f", "f", "0", "0", "0", "0">>))
    /\ Emitted(ret.data, Num("width", 100))

\* a half-transparent paint on a colour whose channels round, on a rectangle
\* more than a million wide
C16_RoundedWitness ==
    /\ PlainRectangle
    /\ call.obj.size = [x |-> 1234567, y |-> 50]
    /\ call.obj.fills[1] = [type |-> "SOLID", color |-> [r |-> 1, g |-> 2, b |-> 3, a |-> 4],
                            opacity |-> 2]
    /\ Emitted(ret.data, FillColor(<<"#", "8", "0", "4", "0", "8", "0", "b", "f">>))
    /\ Emitted(ret.data, [k |-> "num", n |-> "width",
                          x |-> <<"1", ".", "2", "3", "4", "5", "7", "e", "+", "0", "6">>])

UnknownOperation(n) ==
    /\ Str(n, "type") = "BOOLEAN_OPERATION"
    /\ Str(n, "booleanOperation") \notin {"UNION", "SUBTRACT", "INTERSECT", "EXCLUDE"}

\* a slice, or under BreakBooleans a boolean operation of an unknown kind (with
\* at least two children unless any number is allowed), that is parsed live
SilentNode(n, anyCount) ==
    /\ parseBranch(Flags, n) = "live"
    /\ \/ Str(n, "type") = "SLICE"
       \/ /\ UnknownOperation(n)
          /\ "BreakBooleans" \in Flags
          /\ anyCount \/ Len(Arr(n, "children")) >= 2

\* the node without those of its children that are silent
WithoutSilent(n, anyCount) ==
    [n EXCEPT !.children = SelectSeq(n.children, LAMBDA c : ~SilentNode(c, anyCount))]

\* a silent root gives no markup, no issue and no parsed child; a live frame,
\* or a component transpiled as one, with silent children, the others
\* transpiling on their own, gives no issue, parses no child of a silent
\* child and writes the other children; the frame has the markup it has
\* without the silent children
SilentNodes(anyCount) ==
    TranspileDone =>
        /\ SilentNode(call.obj, anyCount) =>
              /\ ret.data = <<>>
              /\ errs = <<>>
              /\ Len(parsed) = 1
        /\ /\ \/ Str(call.obj, "type") = "FRAME"
              \/ Str(call.obj, "type") = "COMPONENT" /\ "ParseComponent" \in Flags
           /\ parseBranch(Flags, call.obj) = "live"
           /\ \E i \in DOMAIN Arr(call.obj, "children") : SilentNode(call.obj.children[i], anyCount)
           /\ \A i \in DOMAIN Arr(call.obj, "children") :
                 \/ SilentNode(call.obj.children[i], anyCount)
                 \/ parse(Ctx, call.obj.children[i], call.obj).ok
           => /\ errs = <<>>
              /\ Str(call.obj, "type") = "FRAME" =>
                    ret.data = parse(Ctx, WithoutSilent(call.obj, anyCount),
                                     WithoutSilent(call.obj, anyCount)).out
              /\ \A i \in DOMAIN call.obj.children :
                    /\ SilentNode(call.obj.children[i], anyCount) =>
                          \A j \in DOMAIN parsed : parsed[j].parent # Str(call.obj.children[i], "id")
                    /\ ~SilentNode(call.obj.children[i], anyCount)
                       /\ ~Bool(call.obj.children[i], "isMask") =>
                          Occurrences(ret.data, parse(Ctx, call.obj.children[i], call.obj).out) # {}

\* C17 as stated: for any number of children
C17_Original == SilentNodes(TRUE)

\* C17: under BreakBooleans a live boolean operation with at least two
\* children whose operation is none of UNION, SUBTRACT, INTERSECT and
\* EXCLUDE, and a live slice, give no markup and no issue, and no child of
\* theirs is parsed; the transpile goes on and writes the siblings.
C17_SilentNodes == SilentNodes(FALSE)

\* a frame holding an unknown operation of two children next to a text
C17_Witness ==
    /\ TranspileDone
    /\ Str(call.obj, "type") = "FRAME"
    /\ "BreakBooleans" \in Flags
    /\ Len(Arr(call.obj, "children")) = 2
    /\ UnknownOperation(call.obj.children[1])
    /\ SilentNode(call.obj.children[1], FALSE)
    /\ Str(call.obj.children[2], "type") = "TEXT"
    /\ errs = <<>>
    /\ Occurrences(ret.data, parse(Ctx, call.obj.children[2], call.obj).out) # {}
    /\ Len(parsed) = 3

TooFewChildren == Fatal("Boolean needs at least two elemetns")

LiveBoolean(n) == Str(n, "type") = "BOOLEAN_OPERATION" /\ parseBranch(Flags, n) = "live"

\* the node without its children
Childless(n) == [k \in DOMAIN n \ {"children"} |-> n[k]]

\* C18: a live BOOLEAN_OPERATION with fewer than two children is a fatal issue
\* under BreakBooleans, as the root and as the first child of a frame; without
\* BreakBooleans the node has the markup of the vector pipeline, the same as
\* without its children, none of its children is parsed and the only issue
\* there can be is the vector pipeline's.
C18_BooleanCompositor ==
    TranspileDone =>
        /\ LiveBoolean(call.obj) /\ "BreakBooleans" \in Flags
           /\ Len(Arr(call.obj, "children")) < 2 =>
              /\ errs = TooFewChildren
              /\ Len(parsed) = 1
        /\ /\ Str(call.obj, "type") = "FRAME"
           /\ Arr(call.obj, "children") # <<>>
           /\ LiveBoolean(call.obj.children[1]) /\ "BreakBooleans" \in Flags
           /\ Len(Arr(call.obj.children[1], "children")) < 2
           => errs = TooFewChildren
        /\ LiveBoolean(call.obj) /\ "BreakBooleans" \notin Flags =>
              /\ errs = IF parseVector(Ctx, call.obj, call.obj).ok THEN <<>>
                        ELSE Fatal(parseVector(Ctx, call.obj, call.obj).what)
              /\ errs = <<>> =>
                    /\ ret.data = parseVector(Ctx, call.obj, call.obj).out
                    /\ ret.data = parse(Ctx, Childless(call.obj), Childless(call.obj)).out
                    /\ ret.data # <<>>
              /\ Len(parsed) = 1

\* a union of one rectangle refused under BreakBooleans
C18_Witness ==
    /\ TranspileDone
    /\ LiveBoolean(call.obj)
    /\ Str(call.obj, "booleanOperation") = "UNION"
    /\ "BreakBooleans" \in Flags
    /\ Len(Arr(call.obj, "children")) = 1
    /\ errs = TooFewChildren

\* the same union written as a vector without BreakBooleans
C18_VectorWitness ==
    /\ TranspileDone
    /\ LiveBoolean(call.obj)
    /\ "BreakBooleans" \notin Flags
    /\ Len(Arr(call.obj, "children")) = 1
    /\ errs = <<>>
    /\ Len(parsed) = 1
    /\ Emitted(ret.data, Open("ShapePath"))

\* the positions of the children flagged isMask
MaskChildren(n) == {i \in DOMAIN Arr(n, "children") : Bool(n.children[i], "isMask")}

\* a live frame with mask children, transpiled without an issue
MaskedFrame ==
    /\ TranspileDone
    /\ Str(call.obj, "type") = "FRAME"
    /\ parsed[1].branch = "live"
    /\ errs = <<>>
    /\ MaskChildren(call.obj) # {}

\* the head of the item holding the masked content (lines 1876-1878)
SourceItemHead(child) == <<Open("Item"), Prop("id", <<"source_">> \o qmlId(Str(child, "id")))>>

\* the block holding the masked content of the mask child m
MaskedContent(m) ==
    Block(ret.data, CHOOSE o \in Occurrences(ret.data, SourceItemHead(call.obj.children[m])) : TRUE)

ChildMarkup(i) == parse(Ctx, call.obj.children[i], call.obj).out

\* C19: with one mask child among the children of a frame, the masked content
\* holds the siblings after the mask child and none of those before it, which
\* are written outside it.
C19_MaskForwardOnly ==
    MaskedFrame /\ Cardinality(MaskChildren(call.obj)) = 1 =>
        \A m \in MaskChildren(call.obj) :
            \A i \in DOMAIN call.obj.children :
                /\ i > m /\ ChildMarkup(i) # <<>> =>
                      Occurrences(MaskedContent(m), ChildMarkup(i)) # {}
                /\ i < m /\ ChildMarkup(i) # <<>> =>
                      /\ Occurrences(MaskedContent(m), ChildMarkup(i)) = {}
                      /\ Occurrences(ret.data, ChildMarkup(i)) # {}

\* what the loop does: the masked content holds every sibling that is not the
\* mask, those before the mask child as well
MaskCapturesAll ==
    MaskedFrame /\ Cardinality(MaskChildren(call.obj)) = 1 =>
        \A m \in MaskChildren(call.obj) :
            \A i \in DOMAIN call.obj.children :
                i # m /\ ChildMarkup(i) # <<>> =>
                    Occurrences(MaskedContent(m), ChildMarkup(i)) # {}

\* a rectangle before the mask child, inside the masked content
MaskCapturesAll_Witness ==
    /\ MaskedFrame
    /\ MaskChildren(call.obj) = {2}
    /\ Str(call.obj.children[1], "type") = "RECTANGLE"
    /\ Occurrences(MaskedContent(2), ChildMarkup(1)) # {}

RECURSIVE OwnMasks(_)
\* the opacity masks in the markup of the children from i on
OwnMasks(i) ==
    IF i > Len(call.obj.children) THEN 0
    ELSE Count(ChildMarkup(i), Open("OpacityMask")) + OwnMasks(i + 1)

\* C20: whatever the number of mask children of a frame, its markup has one
\* mask composite, with one OpacityMask, one mask-source item and one item of
\* masked content, and every block opened is closed.
C20_OneMaskGrouping ==
    MaskedFrame =>
        /\ Count(ret.data, Open("OpacityMask")) = 1 + OwnMasks(1)
        /\ Cardinality(UNION {Occurrences(ret.data, SourceItemHead(call.obj.children[m])) :
                                 m \in MaskChildren(call.obj)}) = 1
        /\ Cardinality(UNION {Occurrences(ret.data, <<Prop("id", <<"mask_">>
                                                        \o qmlId(Str(call.obj.children[m], "id")))>>) :
                                 m \in MaskChildren(call.obj)}) = 1
        /\ Depth(ret.data, 1, Len(ret.data)) = 0

\* what the loop does: one composite opened for every mask child, and two
\* blocks left open for every mask child after the first
MaskPerMaskChild ==
    MaskedFrame =>
        /\ Count(ret.data, Open("OpacityMask")) = Cardinality(MaskChildren(call.obj)) + OwnMasks(1)
        /\ Depth(ret.data, 1, Len(ret.data)) = 2 * (Cardinality(MaskChildren(call.obj)) - 1)

\* two mask children
MaskPerMaskChild_Witness ==
    /\ MaskedFrame
    /\ MaskChildren(call.obj) = {1, 2}
    /\ Count(ret.data, Open("OpacityMask")) = 2
    /\ Depth(ret.data, 1, Len(ret.data)) = 2

\* the classification as the claim lists it
ClaimedTypes ==
    [t \in {"RECTANGLE", "ELLIPSE", "VECTOR", "LINE", "REGULAR_POLYGON", "STAR"} |-> "Vector"]
    @@ [t \in {"GROUP", "FRAME"} |-> "Frame"] @@ [t \in {"TEXT"} |-> "Text"]
    @@ [t \in {"COMPONENT"} |-> "Component"] @@ [t \in {"BOOLEAN_OPERATION"} |-> "Boolean"]
    @@ [t \in {"INSTANCE"} |-> "Instance"] @@ [t \in {"SLICE", "NONE"} |-> "None"]

\* C21: type() maps the fourteen type strings as listed, parse() has a parser
\* for exactly the strings type() has an entry for, and a node of any other
\* type string is refused by both: type() fails on it and parse() reports
\* the fatal issue "Non supported object type".
C21_Classification ==
    /\ DOMAIN types = DOMAIN ClaimedTypes
    /\ DOMAIN parsers = DOMAIN types
    /\ TranspileDone =>
          /\ \A i \in DOMAIN parsed :
                IF Str(Reached(i), "type") \in DOMAIN ClaimedTypes
                THEN /\ type(Reached(i)) = ClaimedTypes[Str(Reached(i), "type")]
                     /\ parsed[i].branch # "unsupported"
                ELSE /\ type(Reached(i)) = "unsupported"
                     /\ parsed[i].branch = "unsupported"
                     /\ i = Len(parsed)
                     /\ errs = Fatal("Non supported object type")
          /\ Str(call.obj, "type") \notin DOMAIN ClaimedTypes => ret = DefaultElement

\* a frame whose slice is parsed live and whose child of an unknown type is
\* then refused
C21_Witness ==
    /\ TranspileDone
    /\ Str(call.obj, "type") = "FRAME"
    /\ Len(parsed) = 3
    /\ Str(Reached(2), "type") = "SLICE" /\ type(Reached(2)) = "None" /\ parsed[2].branch = "live"
    /\ Str(Reached(3), "type") = "UNKNOWN_TYPE" /\ parsed[3].branch = "unsupported"
    /\ errs = Fatal("Non supported object type")

\* C22: within one transpile parse is invoked at most once on each node: no two
\* entries of the trace of parse invocations name the same node.
C22_ParsedOnce ==
    \A i, j \in DOMAIN parsed : i # j => parsed[i].id # parsed[j].id

\* a subtraction of two children under BreakBooleans: the root and both
\* children parsed, each once
C22_Witness ==
    /\ TranspileDone
    /\ LiveBoolean(call.obj)
    /\ Str(call.obj, "booleanOperation") = "SUBTRACT"
    /\ "BreakBooleans" \in Flags
    /\ Len(Arr(call.obj, "children")) = 2
    /\ {parsed[i].id : i \in DOMAIN parsed} = {"1:1", "n1", "n2"}
    /\ Len(parsed) = 3

C23_BareWitness ==
    /\ TranspileDone
    /\ "ParseComponent" \in Flags
    /\ Str(call.obj, "type") = "COMPONENT"
    /\ ~Has(call.obj, "children")
    /\ traversals = {[node |-> Str(call.obj, "id"), before |-> Str(call.obj, "id"),
                      after |-> Str(call.obj, "id")]}

\* the node of the design tree that has the node reached by the i-th
\* invocation of parse among its children
DirectParents(i) ==
    {Str(NodeAt(call.obj, SubSeq(p, 1, Len(p) - 1)), "id") :
        p \in {q \in Paths(call.obj) : q # <<>> /\ Str(NodeAt(call.obj, q), "id") = parsed[i].id}}

\* C28: whenever parse is invoked on a node other than the top-level one,
\* m_parent refers to the direct parent of that node in the design tree, on
\* every dispatch path, the children of boolean nodes included.
C28_DirectParent ==
    \A i \in 2..Len(parsed) : DirectParents(i) = {parsed[i].parent}

\* the node is a boolean node taken apart by a loop of its own (lines 1524,
\* 1540, 1571, 1639) rather than by parseChildrenItems
OwnLoop(n) ==
    /\ Str(n, "type") = "BOOLEAN_OPERATION"
    /\ Str(n, "booleanOperation") \in {"SUBTRACT", "INTERSECT", "EXCLUDE"}

\* what the code does: a child dispatched by parseChildrenItems sees its
\* direct parent; a child of a SUBTRACT, INTERSECT or EXCLUDE node sees what
\* the boolean node itself saw
SlotOfTraversal ==
    \A i \in 2..Len(parsed) :
        \E j \in 1..(i - 1) :
            /\ DirectParents(i) = {parsed[j].id}
            /\ parsed[i].parent = IF OwnLoop(Reached(j)) THEN parsed[j].parent ELSE parsed[j].id

\* a frame holding a subtraction whose first child is marked for rendering:
\* the child is placed against the frame
SlotOfTraversal_Witness ==
    /\ TranspileDone
    /\ errs = <<>>
    /\ call.obj \in NestedBooleans
    /\ Str(call.obj.children[1], "booleanOperation") = "SUBTRACT"
    /\ Len(parsed) = 4
    /\ parsed[3].id = "n1.1" /\ parsed[3].parent = "1:1" /\ parsed[3].branch = "rendered"
    /\ parsed[4].id = "n1.2" /\ parsed[4].parent = "1:1"

\* the top-level node is an instance of a component of the catalogue, written
\* out by parseInstance
InstanceCall ==
    /\ pc # "call"
    /\ call.fn \in {"element", "component"}
    /\ Str(call.obj, "type") = "INSTANCE"
    /\ Str(call.obj, "componentId") \in DOMAIN call.components
    /\ parsed[1].branch = "live"

\* the component of the top-level instance
Canonical == call.components[Str(call.obj, "componentId")].object

\* the keys of the map parseChildrenItems hands makeInstanceChildren for the
\* top-level instance: the ids of its children, or maskedItem alone when one
\* of them is a mask
ChildrenKeys ==
    IF MaskChildren(call.obj) # {} THEN {"maskedItem"}
    ELSE {Str(call.obj.children[i], "id") : i \in DOMAIN Arr(call.obj, "children")}

\* the counts of line 1736 agree, so the loop of lines 1745-1792 is entered
DiffingEntered ==
    /\ InstanceCall
    /\ \A i \in DOMAIN parsed : parsed[i].branch # "unsupported"
    /\ Len(Arr(Canonical, "children")) = Cardinality(ChildrenKeys)

\* the canonical children no key of the map ends in
Unmatched ==
    {i \in DOMAIN Arr(Canonical, "children") :
        \A key \in ChildrenKeys : LastSegment(key) # Str(Canonical.children[i], "id")}

\* C30: whenever the child counts match and diffing is entered, every
\* canonical child is matched by the trailing segment of some key of the
\* instance's children map, so the assertion keyit != keys.end() holds, also
\* for instances with a mask child and for instances whose child ids do not
\* derive from the component's.
C30_KeyFound ==
    DiffingEntered => Unmatched = {} /\ pc = "done"

\* what the code does: the transpile stops at the assertion exactly when
\* diffing is entered with a canonical child no key ends in
AssertionFailsWhenUnmatched ==
    (pc # "call" /\ call.fn \in {"element", "component"}) =>
        (pc \in {"aborted", "undefined"} <=> DiffingEntered /\ Unmatched # {})

\* an instance of the one-child component whose own child is a mask: the map
\* has the single key maskedItem, the counts agree and no key ends in c1
AssertionFailsWhenUnmatched_Witness ==
    /\ pc = "aborted"
    /\ call.components = SingleCatalogue
    /\ Len(Arr(call.obj, "children")) = 1
    /\ MaskChildren(call.obj) = {1}
    /\ ChildrenKeys = {"maskedItem"}
    /\ Unmatched = {1}

\* an instance of the two-child component with two rectangles of its own
StrayChildren_Witness ==
    /\ pc = "undefined"
    /\ call.components = Catalogue
    /\ ChildrenKeys = {"n1", "n2"}
    /\ Unmatched = {1, 2}

\* the top-level instance was written out and the counts of line 1736 differ
CountsDiffer ==
    /\ TranspileDone
    /\ InstanceCall
    /\ errs = <<>>
    /\ Len(Arr(Canonical, "children")) # Cardinality(ChildrenKeys)

\* the markup of the children of the top-level instance from the i-th on, in
\* the order the instance has them
RECURSIVE ChildrenMarkup(_)
ChildrenMarkup(i) ==
    IF i > Len(Arr(call.obj, "children")) THEN <<>>
    ELSE parse(Ctx, call.obj.children[i], call.obj).out \o ChildrenMarkup(i + 1)

\* the children of the top-level instance that are what the canonical child
\* their id ends in is
Unchanged ==
    {i \in DOMAIN Arr(call.obj, "children") :
        \E k \in DOMAIN Arr(Canonical, "children") :
            /\ LastSegment(Str(call.obj.children[i], "id")) = Str(Canonical.children[k], "id")
            /\ DOMAIN OverrideDelta(Ctx, call.obj.children[i], Canonical.children[k]) = {}}

C24_DiffedWitness ==
    /\ TranspileDone /\ DiffingEntered /\ errs = <<>>
    /\ call.components = Catalogue
    /\ Unchanged = {1, 2}
    /\ Str(call.obj.children[1], "id") = "I9;c2"

(***************************************************************************)
(* Specification SpecOrderedMap: an OrderedMap<QString, QByteArray> taking *)
(* up to MaxOps insert and clear operations, lines 260-291.  ret is the    *)
(* map and parsed the operations applied to it since its construction.     *)
(***************************************************************************)
MaxOps == 3

MapKeys == {"a", "b"}
MapValues == {<<Close>>, <<Open("Item"), Close>>}

InitOrderedMap ==
    /\ call = [fn |-> "OrderedMap"]
    /\ ret = OrderedMapEmpty
    /\ errs = <<>>
    /\ cbLog = <<>>
    /\ parsed = <<>>
    /\ lookups = {}
    /\ traversals = {}
    /\ pc = "call"

MapInsert ==
    /\ call.fn = "OrderedMap"
    /\ Len(parsed) < MaxOps
    /\ \E k \in MapKeys, v \in MapValues :
          /\ ret' = OrderedMapInsert(ret, k, v)
          /\ parsed' = Append(parsed, [op |-> "insert", key |-> k, value |-> v])
    /\ UNCHANGED <<call, errs, cbLog, lookups, traversals, pc>>

MapClear ==
    /\ call.fn = "OrderedMap"
    /\ Len(parsed) < MaxOps
    /\ ret' = OrderedMapClear(ret)
    /\ parsed' = Append(parsed, [op |-> "clear", key |-> "", value |-> <<>>])
    /\ UNCHANGED <<call, errs, cbLog, lookups, traversals, pc>>

NextOrderedMap == MapInsert \/ MapClear

SpecOrderedMap == InitOrderedMap /\ [][NextOrderedMap]_vars

\* the insertions since the last clear
RECURSIVE SinceClear(_)
SinceClear(h) ==
    IF h = <<>> THEN <<>>
    ELSE IF h[Len(h)].op = "clear" THEN <<>>
    ELSE Append(SinceClear(SubSeq(h, 1, Len(h) - 1)), h[Len(h)])

\* the keys of the insertions h, each where it was first inserted
RECURSIVE FirstInsertions(_)
FirstInsertions(h) ==
    IF h = <<>> THEN <<>>
    ELSE LET before == FirstInsertions(SubSeq(h, 1, Len(h) - 1))
         IN  IF \E i \in DOMAIN before : before[i] = h[Len(h)].key THEN before
             ELSE Append(before, h[Len(h)].key)

\* the value of the last insertion of key k among h
Latest(h, k) ==
    LET last == CHOOSE i \in DOMAIN h : h[i].key = k /\ \A j \in DOMAIN h : h[j].key = k => j <= i
    IN  h[last].value

\* the pairs met from begin() to end(), lines 279-284
Iterated(m) == m.data

\* C25: after any sequence of insert and clear, keys() is the sequence of
\* first insertions since the last clear and has no key twice, size() is the
\* number of pairs met from begin() to end(), and operator[](k) is the value
\* inserted last for k: inserting a key again overwrites its value and adds
\* no entry.
C25_OrderedMapInvariant ==
    call.fn = "OrderedMap" =>
        LET h == SinceClear(parsed)
            keys == OrderedMapKeys(ret)
        IN  /\ keys = FirstInsertions(h)
            /\ \A i, j \in DOMAIN keys : keys[i] = keys[j] => i = j
            /\ OrderedMapSize(ret) = Len(Iterated(ret))
            /\ \A i \in DOMAIN h : OrderedMapAt(ret, h[i].key) = Latest(h, h[i].key)

\* what the code does: insert always appends a pair, so keys() is the
\* sequence of all insertions since the last clear, a key inserted twice is
\* there twice and met twice on the way from begin() to end(); size() counts
\* the distinct keys and operator[] gives the value inserted last
InsertAppends ==
    call.fn = "OrderedMap" =>
        LET h == SinceClear(parsed)
        IN  /\ OrderedMapKeys(ret) = [i \in DOMAIN h |-> h[i].key]
            /\ Len(Iterated(ret)) = Len(h)
            /\ OrderedMapSize(ret) = Len(FirstInsertions(h))
            /\ \A i \in DOMAIN h : OrderedMapAt(ret, h[i].key) = Latest(h, h[i].key)

\* a inserted, then b, then a again with another value
InsertAppends_Witness ==
    /\ call.fn = "OrderedMap"
    /\ Len(parsed) = 3
    /\ OrderedMapKeys(ret) = <<"a", "b", "a">>
    /\ OrderedMapSize(ret) = 2
    /\ OrderedMapAt(ret, "a") = parsed[3].value
    /\ parsed[3].value # parsed[1].value

(***************************************************************************)
(* Specification SpecFontWeight: fontWeight on every whole design weight   *)
(* from 100 to 900, lines 647-666.                                         *)
(***************************************************************************)
DesignWeights == 100..900

InitFontWeight ==
    /\ call \in [fn : {"fontWeight"}, v : DesignWeights]
    /\ ret = NoRet
    /\ errs = <<>>
    /\ cbLog = <<>>
    /\ parsed = <<>>
    /\ lookups = {}
    /\ traversals = {}
    /\ pc = "call"

FontWeight ==
    /\ pc = "call"
    /\ call.fn = "fontWeight"
    /\ ret' = fontWeight(call.v)
    /\ pc' = "done"
    /\ UNCHANGED <<call, errs, cbLog, parsed, lookups, traversals>>

NextFontWeight == FontWeight

SpecFontWeight == InitFontWeight /\ [][NextFontWeight]_vars

FontWeightDone == pc = "done" /\ call.fn = "fontWeight"

\* the buckets and their thresholds, in order
Buckets ==
    <<<<"Font.Thin", 0>>, <<"Font.ExtraLight", 12>>, <<"Font.Light", 25>>, <<"Font.Normal", 50>>,
      <<"Font.Medium", 57>>, <<"Font.DemiBold", 63>>, <<"Font.Bold", 75>>, <<"Font.ExtraBold", 81>>,
      <<"Font.Black", 87>>>>

\* threshold t against the scaled weight (v - 100) / 900 * 90, times ten
NotExceeding(t, v) == 10 * t <= v - 100
NotBelow(t, v) == 10 * t >= v - 100

\* C26 as stated: fontWeight maps every design weight v in 100..900 to the
\* bucket whose threshold is the largest one not exceeding the scaled value
\* of v.
C26_Original ==
    FontWeightDone =>
        \E i \in DOMAIN Buckets :
            /\ ret = Buckets[i][1]
            /\ NotExceeding(Buckets[i][2], call.v)
            /\ \A j \in DOMAIN Buckets : NotExceeding(Buckets[j][2], call.v) => j <= i

\* C26, amended: fontWeight maps every design weight v in 100..900 to the
\* bucket whose threshold is the smallest one not below the scaled value
\* (v - 100) / 900 * 90 of v; the scaled value is at most 80, so the bucket
\* is never Font.Black, and the hundreds map to Thin, ExtraLight, Light,
\* Normal, Normal, Normal, DemiBold, Bold and ExtraBold.
C26_LeastNotBelow ==
    FontWeightDone =>
        /\ \E i \in DOMAIN Buckets :
              /\ ret = Buckets[i][1]
              /\ NotBelow(Buckets[i][2], call.v)
              /\ \A j \in DOMAIN Buckets : NotBelow(Buckets[j][2], call.v) => i <= j
        /\ ret # "Font.Black"
        /\ call.v % 100 = 0 =>
              ret = <<"Font.Thin", "Font.ExtraLight", "Font.Light", "Font.Normal", "Font.Normal",
                      "Font.Normal", "Font.DemiBold", "Font.Bold", "Font.ExtraBold">>[call.v \div 100]

\* the weight 400, scaled to 30: Font.Normal, whose threshold 50 is above
\* it, and not Font.Light, whose threshold 25 is the largest below it
C26_Witness ==
    /\ FontWeightDone
    /\ call.v = 400
    /\ ret = "Font.Normal"

\* the top-level node is a frame whose only child, centred in it, was written out
CentredChild ==
    /\ TranspileDone
    /\ errs = <<>>
    /\ call.obj \in CentredNodes
    /\ Len(parsed) = 2 /\ parsed[2].branch = "live"

\* the markup of the child, and what it is under the constraints LEFT and TOP
CentredMarkup == parse(Ctx, call.obj.children[1], call.obj).out
LeftMarkup ==
    parse(Ctx, [call.obj.children[1] EXCEPT !.constraints = [horizontal |-> "LEFT", vertical |-> "TOP"]],
          call.obj).out

\* the number the first line `name: ...` after position j of the markup gives
FirstAfter(markup, j, name, values) ==
    LET at == {i \in j..Len(markup) : markup[i].k = "num" /\ markup[i].n = name}
        first == CHOOSE i \in at : \A i2 \in at : i <= i2
    IN  {v \in values : at # {} /\ markup[first] = Num(name, v)}

\* twice the value of the expression at position j, (parent - extent) / 2
\* plus or minus the remainder, for the parent's design size and the
\* extent the node is given
TwiceCentre(markup, j, own, dim) ==
    {Dbl(call.obj.size, dim) - e - markup[j].x : e \in FirstAfter(markup, j, own, 0..40)}

\* the expression on axis prop at position j gives the offset the line at
\* the same position gives under LEFT and TOP
CentreIsLeft(j, prop, own, dim) ==
    \E t \in -10..40 :
        /\ LeftMarkup[j].k = "num" /\ LeftMarkup[j] = Num(prop, t)
        /\ TwiceCentre(CentredMarkup, j, own, dim) = {2 * t}

\* C27: for a node with the constraint CENTER, the expression makeExtents
\* writes for x (y), evaluated with the parent's design size and the width
\* (height) the node is given, is the offset the node gets under LEFT (TOP);
\* for every stroke strategy, the outside-stroke emitters included.
C27_CentreIsLeft ==
    CentredChild =>
        \A j \in DOMAIN CentredMarkup :
            CentredMarkup[j].k = "center" =>
                /\ CentredMarkup[j].n = "x" => CentreIsLeft(j, "x", "width", "x")
                /\ CentredMarkup[j].n = "y" => CentreIsLeft(j, "y", "height", "y")

\* the node is written by an emitter that enlarges its box by the stroke
\* weight on every side (lines 1047 and 1134)
Enlarged ==
    FirstAfter(CentredMarkup, 1, "width", 0..40) =
        {call.obj.children[1].size.x + 2 * Dbl(call.obj.children[1], "strokeWeight")}
        \ {call.obj.children[1].size.x}

\* what the code does: the remainder is computed from the node's size, not
\* from the enlarged box, so the expression gives the LEFT offset only for
\* the emitters that keep the node's box; under the others it is less by the
\* stroke weight
CentreOfOwnSize ==
    CentredChild =>
        \A j \in DOMAIN CentredMarkup :
            (CentredMarkup[j].k = "center" /\ CentredMarkup[j].n = "x") =>
                \E t \in -10..40 :
                    /\ LeftMarkup[j].k = "num" /\ LeftMarkup[j] = Num("x", t)
                    /\ TwiceCentre(CentredMarkup, j, "width", "x") =
                          {2 * t - (IF Enlarged THEN 2 * Dbl(call.obj.children[1], "strokeWeight") ELSE 0)}

\* a centred rectangle with an outside stroke of weight 2
CentreOfOwnSize_Witness ==
    /\ CentredChild
    /\ Enlarged
    /\ Dbl(call.obj.children[1], "strokeWeight") = 2
    /\ \E j \in DOMAIN CentredMarkup :
          /\ CentredMarkup[j].k = "center" /\ CentredMarkup[j].n = "x"
          /\ LeftMarkup[j].k = "num" /\ LeftMarkup[j] = Num("x", 3)
          /\ TwiceCentre(CentredMarkup, j, "width", "x") = {2}

\* the ids of the nodes of the tree are pairwise distinct, and so are the
\* identifiers qmlId makes of them
DistinctIds ==
    \A p, q \in Paths(call.obj) :
        p # q => qmlId(Str(NodeAt(call.obj, p), "id")) # qmlId(Str(NodeAt(call.obj, q), "id"))

\* the positions of the lines `id: ...` of the markup
IdLines(data) == {j \in DOMAIN data : data[j].k = "prop" /\ data[j].n = "id"}

\* the positions of the lines source: and maskSource: of the OpacityMask
\* blocks, which stand next to each other
MaskLines(data) ==
    {j \in DOMAIN data :
        /\ data[j].k = "prop"
        /\ \/ data[j].n = "maskSource"
           \/ /\ data[j].n = "source"
              /\ \E i \in {j - 1, j + 1} \cap DOMAIN data : data[i].k = "prop" /\ data[i].n = "maskSource"}

\* C29: when the ids of the tree are pairwise distinct, all identifiers the
\* markup of the element declares with id: are pairwise distinct, whatever
\* the kinds of the nodes, and every identifier a source: or maskSource:
\* line names is declared exactly once.
C29_DistinctDeclarations ==
    (TranspileDone /\ errs = <<>> /\ DistinctIds) =>
        /\ \A i, j \in IdLines(ret.data) : ret.data[i].v = ret.data[j].v => i = j
        /\ \A m \in MaskLines(ret.data) :
              Cardinality({j \in IdLines(ret.data) : ret.data[j].v = ret.data[m].v}) = 1

\* the children that are masks and declare source_<id> themselves: vectors
\* with an image fill (line 821) and boolean nodes taken apart (lines 1477,
\* 1510, 1553, 1590)
SelfSourcedMasks ==
    {p \in Paths(call.obj) :
        /\ p # <<>>
        /\ Bool(NodeAt(call.obj, p), "isMask")
        /\ Occurrences(ret.data, <<Prop("id", SourceId(NodeAt(call.obj, p)))>>) # {}
        /\ \/ Str(NodeAt(call.obj, p), "type") = "BOOLEAN_OPERATION"
           \/ \E i \in DOMAIN Arr(NodeAt(call.obj, p), "fills") :
                 Str(NodeAt(call.obj, p).fills[i], "type") = "IMAGE"}

\* what the code does: an identifier is declared twice exactly when a mask
\* child declares source_<id> for its own fill, next to the source item
\* parseChildrenItems opens under the same name
DeclaredTwiceByMasks ==
    (TranspileDone /\ errs = <<>> /\ DistinctIds) =>
        \A i, j \in IdLines(ret.data) :
            (i # j /\ ret.data[i].v = ret.data[j].v) =>
                \E p \in SelfSourcedMasks : ret.data[i].v = SourceId(NodeAt(call.obj, p))

\* a frame whose mask child is an ellipse with an image fill
DeclaredTwiceByMasks_Witness ==
    /\ TranspileDone /\ errs = <<>>
    /\ call.obj \in MaskedNodes
    /\ Str(call.obj.children[1], "type") = "ELLIPSE"
    /\ SelfSourcedMasks = {<<1>>}
    /\ Cardinality({j \in IdLines(ret.data) : ret.data[j].v = SourceId(call.obj.children[1])}) = 2

====
